---- MODULE Spec2Model ----
(***************************************************************************)
(* A model of pyverilator: the PyVerilator facade (pyverilator.py), the    *)
(* native shim emitted by the glue code generator (verilatorcpp.py) and    *)
(* the compiled designs the test suite drives through them.                *)
(*                                                                         *)
(* Integers that cross the foreign-call boundary are up to 248 bits wide,  *)
(* so an unsigned integer is represented by the set of the positions of    *)
(* its 1 bits: 0 is {}, 5 is {0, 2}, 2^32 is {32}.  Shifts, truncations    *)
(* and bitwise ors are then exact at every width.                          *)
(***************************************************************************)
EXTENDS Integers, Sequences, FiniteSets, TLC

(***************************************************************************)
(* Bounds of the exploration.                                              *)
(***************************************************************************)
MaxAppends == 2
MaxSessions == 2
MaxWidth == 72
\* the longest name of a module or a signal the designer writes
MaxChars == 2
\* the most registrations of a finish callback on one instance
MaxRegistrations == 2
MaxInternals == 3

(***************************************************************************)
(* Python's None, for the fields that hold a string or None.               *)
(***************************************************************************)
None == "None"
NullPtr == 0

(***************************************************************************)
(* Unsigned integers as bit sets.                                          *)
(***************************************************************************)
\* value mod 2^n: ctypes.c_uint32(value), ctypes.c_uint64(value), a C
\* parameter or return of type uint32_t / uint64_t
Trunc(v, n) == {b \in v : b < n}

\* value >> k
Shr(v, k) == {b - k : b \in {x \in v : x >= k}}

\* value << k
Shl(v, k) == {b + k : b \in v}

\* a | b
BitOr(a, b) == a \cup b

\* the bits of a hexadecimal literal, most significant digit first
RECURSIVE FromHex(_)
FromHex(digits) ==
    IF digits = <<>> THEN {}
    ELSE LET n == Len(digits)
             d == digits[1]
             lo == 4 * (n - 1)
         IN  {lo + j : j \in {k \in 0..3 : (d \div (2^k)) % 2 = 1}}
             \cup FromHex(Tail(digits))

Rep(d, k) == [i \in 1..k |-> d]

(***************************************************************************)
(* The compiled designs (the .so files) and their embedded metadata.       *)
(***************************************************************************)
Widths == {1, 8, 32, 33, 64, 65, 128, 248}

PassName(w) == "passthrough_" \o ToString(w)

PassDesigns == {PassName(w) : w \in Widths}

PassWidths == [so \in PassDesigns |-> CHOOSE w \in Widths : PassName(w) = so]

PassWidth(so) == PassWidths[so]

AllDesigns == PassDesigns \cup {"width_test", "clocked"}

\* one-bit ports under the names given
Bits(names) == [i \in 1..Len(names) |-> <<names[i], 1>>]

\* designs that wire input k to output k, as variable_name_test does, under
\* names that try the decoder, the Collection and the clock detection.  The
\* names are the ones the compiler exports (AstNode::encodeName): __a is
\* ___05Fa, a__020a is a___05F020a, $^_^ is __024__05E___05E, 007 is
\* __03007 and .][. is __02E__05D__05B__02E
NameTable ==
    [variable_name_test |->
        [inputs |-> Bits(<<"a___05F020a", "__024__05E___05E", "__03007">>),
         outputs |-> Bits(<<"a___05F020a_out", "__024__05E___05E_out",
                            "__03007_out">>)],
     variable_name_test_2 |->
        [inputs |-> Bits(<<"a", "___05Fa", "__02E__05D__05B__02E">>),
         outputs |-> Bits(<<"a_out", "___05Fa_out", "__02E__05D__05B__02E_out">>)],
     keyword_test |->
        [inputs |-> << <<"in", 8>>, <<"_item_dict", 1>>, <<"_item_dict_keys", 1>> >>,
         outputs |-> << <<"out", 8>>, <<"_item_dict_out", 1>>,
                        <<"_item_dict_keys_out", 1>> >>],
     keyword_escaped_test |->
        [inputs |-> Bits(<<"in", "in_">>),
         outputs |-> Bits(<<"out", "out_">>)],
     clock_exact |->
        [inputs |-> Bits(<<"sys_clk", "clk_in", "Clock">>),
         outputs |-> Bits(<<"q0", "q1", "q2">>)],
     clock_order |->
        [inputs |-> Bits(<<"clk", "clock">>), outputs |-> Bits(<<"q0", "q1">>)],
     clock_prefix |->
        [inputs |-> Bits(<<"sys_clk", "clk_in">>), outputs |-> Bits(<<"q0", "q1">>)],
     clock_suffix |->
        [inputs |-> Bits(<<"en", "sys_clk">>), outputs |-> Bits(<<"q0", "q1">>)],
     clock_none |->
        [inputs |-> Bits(<<"en">>), outputs |-> Bits(<<"q0">>)],
     clock_upper |->
        [inputs |-> Bits(<<"CLK_IN">>), outputs |-> Bits(<<"q0">>)],
     clock_wide |->
        [inputs |-> << <<"clk_div", 8>> >>, outputs |-> << <<"q0", 8>> >>],
     clock_output |->
        [inputs |-> Bits(<<"en">>), outputs |-> Bits(<<"clk_out">>)]]

NameDesigns == DOMAIN NameTable

\* the module finish_tester built from one file, and built again from a
\* second file: two artifacts of the same design
FinishTesters == {"finish_tester", "finish_tester_2"}

\* _pyverilator_inputs / _pyverilator_input_widths of the artifact
Inputs(so) ==
    CASE so = "width_test" ->
            << <<"input_a", 8>>, <<"input_b", 16>>, <<"input_c", 32>>,
               <<"input_d", 64>>, <<"input_e", 128>> >>
      [] so = "clocked" -> << <<"clk", 1>>, <<"d", 40>> >>
      [] so = "internal_test" ->
            << <<"clk", 1>>, <<"rst_n", 1>>, <<"input_a", 8>>, <<"input_b", 16>>,
               <<"input_c", 32>>, <<"input_d", 64>>, <<"input_e", 128>> >>
      [] so \in NameDesigns -> NameTable[so].inputs
      [] so \in FinishTesters -> Bits(<<"clk", "rst", "do_finish">>)
      [] OTHER -> << <<"a", PassWidth(so)>> >>

\* _pyverilator_outputs / _pyverilator_output_widths of the artifact
Outputs(so) ==
    CASE so = "width_test" -> << <<"output_concat", 248>> >>
      [] so = "clocked" -> << <<"q", 40>> >>
      [] so = "internal_test" -> << <<"output_concat", 248>> >>
      [] so \in NameDesigns -> NameTable[so].outputs
      [] so \in FinishTesters -> <<>>
      [] OTHER -> << <<"a_out", PassWidth(so)>> >>

\* _pyverilator_internal_signals: the tests note that the compiler no longer
\* exposes internal signals
InternalSignals(so) == <<>>

Names(list) == {list[i][1] : i \in 1..Len(list)}

\* storage of the native model that is not a port
HiddenState(so) ==
    CASE so = "clocked" -> {"__Vclklast__clk"}
      [] so = "internal_test" ->
            {"__Vclklast__clk", "internal_concat_1", "internal_concat_2"}
      [] so \in FinishTesters -> {"__Vclklast__clk"}
      [] OTHER -> {}

\* the number of registers between the data inputs and the output
Stages(so) ==
    CASE so = "clocked" -> 1
      [] so = "internal_test" -> 2
      [] OTHER -> 0

NativeSignals(so) ==
    Names(Inputs(so)) \cup Names(Outputs(so)) \cup HiddenState(so)

WidthOf(so, name) ==
    LET all == Inputs(so) \o Outputs(so)
    IN  all[CHOOSE i \in 1..Len(all) : all[i][1] = name][2]

(***************************************************************************)
(* The glue code: which accessor the generator emits for a width.          *)
(***************************************************************************)
\* get_functions: port[1] > 64, port[1] > 32, else
GlueGetTier(w) ==
    IF w > 64 THEN "words" ELSE IF w > 32 THEN "w64" ELSE "w32"

\* set_functions: port[1] > 64, port[1] > 32, else
GlueSetTier(w) ==
    IF w > 64 THEN "words" ELSE IF w > 32 THEN "w64" ELSE "w32"

\* small naturals as bit sets and back (word indices)
FromNat(n) == {k \in 0..7 : (n \div (2^k)) % 2 = 1}

RECURSIVE SumPow(_)
SumPow(v) ==
    IF v = {} THEN 0
    ELSE LET b == CHOOSE x \in v : TRUE IN 2^b + SumPow(v \ {b})

\* a C int parameter receiving v; an index no array of the model has is
\* reported as 256
ToNat(v) == IF \E b \in v : b > 7 THEN 256 ELSE SumPow(v)

\* the k-th argument after the model pointer as the callee sees it
Arg(args, k) == IF k <= Len(args) THEN args[k] ELSE {}

\* top->port[word] = new_value on an array of 32-bit words
ReplaceWord(v, i, w) == (v \ ((32 * i)..(32 * i + 31))) \cup Shl(Trunc(w, 32), 32 * i)

\* uint32_t/uint64_t get_<port>(top [, int word])
NativeGet(so, top, port, args) ==
    LET t == GlueGetTier(WidthOf(so, port))
    IN  CASE t = "words" -> Trunc(Shr(top[port], 32 * ToNat(Arg(args, 1))), 32)
          [] t = "w64" -> Trunc(top[port], 64)
          [] OTHER -> Trunc(top[port], 32)

\* int set_<port>(top [, int word], new_value)
NativeSet(so, top, port, args) ==
    LET t == GlueSetTier(WidthOf(so, port))
    IN  CASE t = "words" ->
               [top EXCEPT ![port] = ReplaceWord(@, ToNat(Arg(args, 1)), Arg(args, 2))]
          [] t = "w64" -> [top EXCEPT ![port] = Trunc(Arg(args, 1), 64)]
          [] OTHER -> [top EXCEPT ![port] = Trunc(Arg(args, 1), 32)]

\* {input_a, input_b, input_c, input_d, input_e}
Concatenation(top) ==
    Trunc(top["input_e"], 128)
    \cup Shl(Trunc(top["input_d"], 64), 128)
    \cup Shl(Trunc(top["input_c"], 32), 192)
    \cup Shl(Trunc(top["input_b"], 16), 224)
    \cup Shl(Trunc(top["input_a"], 8), 240)

\* the always @(posedge clk) block of internal_test and its continuous
\* assignment, on a rising edge
InternalTestEdge(top) ==
    IF 0 \notin top["rst_n"]
    THEN [top EXCEPT !["internal_concat_1"] = {},
                     !["internal_concat_2"] = {},
                     !["output_concat"] = {}]
    ELSE [top EXCEPT !["internal_concat_1"] = Concatenation(top),
                     !["internal_concat_2"] = top["internal_concat_1"],
                     !["output_concat"] = top["internal_concat_1"]]

\* assign <output k> = <input k> for every pair of ports
Assigned(ins, outs, top) ==
    [n \in DOMAIN top |->
        IF \E k \in 1..Len(outs) : outs[k][1] = n
        THEN LET k == CHOOSE j \in 1..Len(outs) : outs[j][1] = n
             IN  Trunc(top[ins[k][1]], outs[k][2])
        ELSE top[n]]

\* the edge detection verilator generates for a clock input
Posedge(top) == 0 \in top["clk"] /\ 0 \notin top["__Vclklast__clk"]

\* top->eval() of each design
NativeEval(so, top) ==
    CASE so = "width_test" -> [top EXCEPT !["output_concat"] = Concatenation(top)]
      [] so = "internal_test" ->
            [(IF Posedge(top) THEN InternalTestEdge(top) ELSE top)
                EXCEPT !["__Vclklast__clk"] = Trunc(top["clk"], 1)]
      [] so = "clocked" ->
            LET posedge == 0 \in top["clk"] /\ 0 \notin top["__Vclklast__clk"]
            IN  [top EXCEPT !["q"] = IF posedge THEN Trunc(top["d"], 40) ELSE @,
                            !["__Vclklast__clk"] = Trunc(top["clk"], 1)]
      [] so \in NameDesigns -> Assigned(Inputs(so), Outputs(so), top)
      [] so \in FinishTesters -> [top EXCEPT !["__Vclklast__clk"] = Trunc(top["clk"], 1)]
      [] OTHER -> [top EXCEPT !["a_out"] = Trunc(top["a"], PassWidth(so))]

\* the pointer construct() returns: the address of the new V<module>
ModelOf(so) == "V" \o so

\* new V<module>() : every signal of a fresh model is 0
NativeConstruct(so) == [n \in NativeSignals(so) |-> {}]

(***************************************************************************)
(* The facade.  An instance is a record s of the fields of PyVerilator:    *)
(* so_file (the loaded library), top (the native model behind             *)
(* self.model), auto_eval, vcd_filename, vcd_trace, auto_tracing_mode,     *)
(* curr_time, gtkwave_active, clock; tfps holds the VerilatedVcdC objects  *)
(* the library has allocated; calls logs the native calls of the running   *)
(* operation, ret its return value and exc the exception it raised.        *)
(***************************************************************************)
\* fn names the entry point, port the signal of an accessor, abi the ctypes
\* signature the caller set on it (argtypes / restype), args the arguments
\* after the model pointer and res the value returned
NativeCall(fn, port, abi, args, res) ==
    [fn |-> fn, port |-> port, abi |-> abi, args |-> args, res |-> res,
     tfp |-> NullPtr, time |-> 0]

TraceCall(fn, tfp, time) ==
    [fn |-> fn, port |-> None, abi |-> None, args |-> <<>>, res |-> {},
     tfp |-> tfp, time |-> time]

Log(s, c) == [s EXCEPT !.calls = Append(@, c)]

Raise(s, e) == [s EXCEPT !.exc = e]

\* a C int parameter receiving a Python int through ctypes.c_int
MaxCInt == 2147483647
CInt(t) == IF t <= MaxCInt THEN t ELSE t - MaxCInt - MaxCInt - 2

\* VerilatedVcdC* start_vcd_trace(top, filename): a new object per call,
\* named by its position in tfps
NativeStartVcdTrace(tfps, filename) ==
    Append(tfps, [open |-> TRUE, dumps |-> <<>>])

\* tfp->dump(time)
NativeAddToVcdTrace(tfps, tfp, time) ==
    [tfps EXCEPT ![tfp].dumps = Append(@, time)]

\* tfp->close(): the file leaves the process
NativeStopVcdTrace(tfps, tfp) ==
    [tfps EXCEPT ![tfp] = [open |-> FALSE, dumps |-> <<>>]]

\* PyVerilator.flush_vcd_trace; reload_dump_file only talks to the viewer
flush_vcd_trace(s) ==
    IF s.vcd_trace = NullPtr THEN Raise(s, "ValueError")
    ELSE Log(s, TraceCall("flush_vcd_trace", s.vcd_trace, 0))

\* one step of add_to_vcd_trace: self.curr_time += 5, then the native call
Sample(s) ==
    Log([s EXCEPT !.curr_time = @ + 5,
                  !.tfps = NativeAddToVcdTrace(@, s.vcd_trace, CInt(s.curr_time + 5))],
        TraceCall("add_to_vcd_trace", s.vcd_trace, CInt(s.curr_time + 5)))

\* (mutation) an append of one sample
AddOneSample(s) ==
    IF s.vcd_trace = NullPtr THEN Raise(s, "ValueError")
    ELSE flush_vcd_trace(Sample(s))

\* PyVerilator.add_to_vcd_trace
add_to_vcd_trace(s) ==
    IF s.vcd_trace = NullPtr THEN Raise(s, "ValueError")
    ELSE flush_vcd_trace(Sample(Sample(s)))

\* the second statement of eval, after the native call
EvalTrace(s) ==
    IF s.auto_tracing_mode = "eval" THEN add_to_vcd_trace(s) ELSE s

\* the always block of finish_tester: $finish on a rising edge of clk with
\* rst == 0 and do_finish == 1
DoesFinish(so, top) ==
    /\ so \in FinishTesters
    /\ Posedge(top)
    /\ 0 \notin top["rst"] /\ 0 \in top["do_finish"]

\* no callback: None where a wrapped callback [cb, self] can stand
NoCallback == [cb |-> None, self |-> None]

\* the arguments verilator gives vl_finish: filename, linenum, hier
FinishArgs == <<"filename", "linenum", "hier">>

\* the registered callback called from the library: the lambda of
\* set_vl_finish_callback puts the instance before the arguments
CallbackCall(wrapped) ==
    [fn |-> "vl_finish_callback", port |-> wrapped.cb, abi |-> None,
     args |-> <<wrapped.self>> \o FinishArgs, res |-> {}, tfp |-> NullPtr, time |-> 0]

\* the library when the model signals $finish: the flag is set and the one
\* registered callback, if any, is invoked
NativeFinish(s) ==
    IF s.vl_finish_callback = NoCallback THEN [s EXCEPT !.finished = TRUE]
    ELSE Log([s EXCEPT !.finished = TRUE], CallbackCall(s.vl_finish_callback))

\* int get_finished()
NativeGetFinished(s) == IF s.finished THEN {0} ELSE {}

\* set_finished(b)
NativeSetFinished(s, b) == [s EXCEPT !.finished = b]

\* set_vl_finish_callback(callback): one slot
NativeSetVlFinishCallback(s, callback) == [s EXCEPT !.vl_finish_callback = callback]

\* fn(self.model) on eval: the model is evaluated, and signals $finish
\* when the design does
CallEval(s) ==
    IF DoesFinish(s.so_file, s.top)
    THEN NativeFinish(Log([s EXCEPT !.top = NativeEval(s.so_file, @)],
                          NativeCall("eval", None, None, <<>>, {})))
    ELSE Log([s EXCEPT !.top = NativeEval(s.so_file, @)],
             NativeCall("eval", None, None, <<>>, {}))

\* PyVerilator.eval
eval(s) == EvalTrace(CallEval(s))

\* the second statement of _post_write_hook; self.clock is held as the
\* verilator_name of the Clock handle
HookTrace(s, port_name) ==
    IF s.exc # None THEN s
    ELSE IF s.auto_tracing_mode = "clock" /\ port_name = s.clock
         THEN add_to_vcd_trace(s)
         ELSE s

\* (mutation) a hook that forgets the automatic evaluation
HookWithoutEval(s, port_name) == HookTrace(s, port_name)

\* PyVerilator._post_write_hook
_post_write_hook(s, port_name) ==
    HookTrace(IF s.auto_eval THEN eval(s) ELSE s, port_name)

\* fn(self.model, *args) on the setter of port_name, declared with abi
CallSet(s, port_name, abi, args) ==
    Log([s EXCEPT !.top = NativeSet(s.so_file, @, port_name, args)],
        NativeCall("set", port_name, abi, args, {}))

\* PyVerilator._write_32
_write_32(s, port_name, value) ==
    _post_write_hook(CallSet(s, port_name, "w32", <<Trunc(value, 32)>>), port_name)

\* PyVerilator._write_64
_write_64(s, port_name, value) ==
    _post_write_hook(CallSet(s, port_name, "w64", <<Trunc(value, 64)>>), port_name)

\* the loop of _write_words, words i..num_words-1.  The caller declares the
\* setter (c_void_p, c_uint64, c_uint32) and the glue code defines it
\* (top, int word, uint64_t new_value): with every integer argument in a
\* 64-bit register of its own (x86-64, AArch64) the callee reads the index
\* from the low half of the second register and the zero-extended word from
\* the third.
RECURSIVE SetWords(_, _, _, _, _)
SetWords(s, port_name, num_words, value, i) ==
    IF i >= num_words THEN s
    ELSE SetWords(CallSet(s, port_name, "words",
                          <<FromNat(i), Trunc(Shr(value, i * 32), 32)>>),
                  port_name, num_words, value, i + 1)

\* PyVerilator._write_words
_write_words(s, port_name, num_words, value) ==
    _post_write_hook(SetWords(s, port_name, num_words, value, 0), port_name)

\* return int(v) after a getter call declared with abi
Returned(s, port_name, abi, v) ==
    [Log(s, NativeCall("get", port_name, abi, <<>>, v)) EXCEPT !.ret = v]

\* PyVerilator._read_32
_read_32(s, port_name) ==
    Returned(s, port_name, "w32", Trunc(NativeGet(s.so_file, s.top, port_name, <<>>), 32))

\* PyVerilator._read_64
_read_64(s, port_name) ==
    Returned(s, port_name, "w64", Trunc(NativeGet(s.so_file, s.top, port_name, <<>>), 64))

\* the first loop of _read_words: words[i] = fn(model, i)
GetWord(s, port_name, i) ==
    Trunc(NativeGet(s.so_file, s.top, port_name, <<FromNat(i)>>), 32)

\* (mutation) the words or-ed together without the shift
RECURSIVE OrWordsUnshifted(_, _, _)
OrWordsUnshifted(words, num_words, i) ==
    IF i >= num_words THEN {}
    ELSE BitOr(words[i + 1], OrWordsUnshifted(words, num_words, i + 1))

\* the second loop of _read_words: out |= words[i] << (i * 32)
RECURSIVE OrWords(_, _, _)
OrWords(words, num_words, i) ==
    IF i >= num_words THEN {}
    ELSE BitOr(Shl(words[i + 1], i * 32), OrWords(words, num_words, i + 1))

\* return out, after the calls that filled words
ReturnedWords(s, port_name, num_words, words) ==
    [s EXCEPT !.calls = @ \o [k \in 1..num_words |->
                                NativeCall("get", port_name, "words",
                                           <<FromNat(k - 1)>>, words[k])],
              !.ret = OrWords(words, num_words, 0)]

\* PyVerilator._read_words
_read_words(s, port_name, num_words) ==
    ReturnedWords(s, port_name, num_words,
                  [k \in 1..num_words |-> GetWord(s, port_name, k - 1)])

(***************************************************************************)
(* The name decoder, on strings.                                           *)
(***************************************************************************)
StartsWith(str, prefix) ==
    Len(str) >= Len(prefix) /\ SubSeq(str, 1, Len(prefix)) = prefix

EndsWith(str, suffix) ==
    Len(str) >= Len(suffix)
    /\ SubSeq(str, Len(str) - Len(suffix) + 1, Len(str)) = suffix

\* sub in str
Contains(str, sub) ==
    \E i \in 1..(Len(str) - Len(sub) + 1) : SubSeq(str, i, i + Len(sub) - 1) = sub

\* str.find(sub), from 1; 0 where Python returns -1
Find(str, sub) ==
    IF \E i \in 1..(Len(str) - Len(sub) + 1) : SubSeq(str, i, i + Len(sub) - 1) = sub
    THEN CHOOSE k \in 1..(Len(str) - Len(sub) + 1) :
            /\ SubSeq(str, k, k + Len(sub) - 1) = sub
            /\ \A j \in 1..(k - 1) : SubSeq(str, j, j + Len(sub) - 1) # sub
    ELSE 0

\* str.split(sep), i the place of the first sep in str
RECURSIVE SplitAt(_, _, _)
SplitAt(str, sep, i) ==
    IF i = 0 THEN <<str>>
    ELSE <<SubSeq(str, 1, i - 1)>>
         \o SplitAt(SubSeq(str, i + Len(sep), Len(str)), sep,
                    Find(SubSeq(str, i + Len(sep), Len(str)), sep))

Split(str, sep) == SplitAt(str, sep, Find(str, sep))

HexDigits == "0123456789ABCDEF"
HexDigitsLower == "0123456789abcdef"

IsHexDigit(c) ==
    \E i \in 1..16 : SubSeq(HexDigits, i, i) = c \/ SubSeq(HexDigitsLower, i, i) = c

HexVal(c) ==
    (CHOOSE i \in 1..16 : SubSeq(HexDigits, i, i) = c \/ SubSeq(HexDigitsLower, i, i) = c) - 1

\* the value of text[i..], a string of hexadecimal digits, after acc
RECURSIVE HexFrom(_, _, _)
HexFrom(text, i, acc) ==
    IF i > Len(text) THEN acc
    ELSE HexFrom(text, i + 1, 16 * acc + HexVal(SubSeq(text, i, i)))

\* int(text, 16) on one or two hexadecimal digits; -1 where int() raises
HexInt(text) ==
    IF Len(text) = 0 \/ \E i \in 1..Len(text) : ~IsHexDigit(SubSeq(text, i, i))
    THEN -1
    ELSE HexFrom(text, 1, 0)

\* the characters 0x20..0x5F and 0x61..0x7E
PrintableLow ==
    " !\"#$%&'()*+,-./0123456789:;<=>?@ABCDEFGHIJKLMNOPQRSTUVWXYZ[\\]^_"
PrintableHigh == "abcdefghijklmnopqrstuvwxyz{|}~"

\* chr(n); a character outside the two tables is written \xHH
Chr(n) ==
    IF n >= 32 /\ n <= 95 THEN SubSeq(PrintableLow, n - 31, n - 31)
    ELSE IF n >= 97 /\ n <= 126 THEN SubSeq(PrintableHigh, n - 96, n - 96)
    ELSE "\\x" \o SubSeq(HexDigits, (n \div 16) + 1, (n \div 16) + 1)
               \o SubSeq(HexDigits, (n % 16) + 1, (n % 16) + 1)

\* str[lo-1:hi], a slice that stops at the end of str
Slice(str, lo, hi) == SubSeq(str, lo, IF hi > Len(str) THEN Len(str) ELSE hi)

\* (mutation) a step that keeps the two digits of the escape
DecodedWhole(part, code) ==
    IF code < 0 THEN [exc |-> "ValueError", text |-> ""]
    ELSE [exc |-> None, text |-> Chr(code) \o part]

\* one step of the inner loop: chr(int(part[0:2], 16)) + part[2:], code the
\* value of int()
Decoded(part, code) ==
    IF code < 0 THEN [exc |-> "ValueError", text |-> ""]
    ELSE [exc |-> None, text |-> Chr(code) \o Slice(part, 3, Len(part))]

\* the inner loop of the decoder over split_at_escape_char[i..], acc the
\* name built so far
RECURSIVE Unescape(_, _, _)
Unescape(parts, i, acc) ==
    IF i > Len(parts) \/ acc.exc # None THEN acc
    ELSE IF i = 1 THEN Unescape(parts, 2, [exc |-> None, text |-> parts[1]])
    ELSE Unescape(parts, i + 1,
                  [exc |-> Decoded(parts[i], HexInt(Slice(parts[i], 1, 2))).exc,
                   text |-> acc.text \o Decoded(parts[i], HexInt(Slice(parts[i], 1, 2))).text])

\* the outer loop of the decoder over the segments of the path
Segments(modular) ==
    [k \in 1..Len(modular) |->
        Unescape(Split(modular[k], "__0"), 1, [exc |-> None, text |-> ""])]

\* the list the decoder returns, or the exception of a segment
Path(segs) ==
    IF \E k \in 1..Len(segs) : segs[k].exc # None
    THEN [exc |-> "ValueError", path |-> <<>>]
    ELSE [exc |-> None, path |-> [k \in 1..Len(segs) |-> segs[k].text]]

\* if len(split_at_dot) > 1: drop the first element
DropTop(split) == IF Len(split) > 1 THEN Tail(split) ELSE split

\* (mutation) a decoder that looks for the array markers only at the front
MarkerAtFront(verilator_name) ==
    IF StartsWith(verilator_name, "__BRA__") \/ StartsWith(verilator_name, "__KET__")
    THEN [exc |-> "NotImplementedError", path |-> <<>>]
    ELSE Path(Segments(DropTop(Split(verilator_name, "__DOT__"))))

\* verilator_name_to_standard_modular_name
verilator_name_to_standard_modular_name(verilator_name) ==
    IF Contains(verilator_name, "__BRA__") \/ Contains(verilator_name, "__KET__")
    THEN [exc |-> "NotImplementedError", path |-> <<>>]
    ELSE Path(Segments(DropTop(Split(verilator_name, "__DOT__"))))

\* ord(c) of a character of the two tables
Ord(c) ==
    IF Contains(PrintableLow, c) THEN 31 + Find(PrintableLow, c)
    ELSE 96 + Find(PrintableHigh, c)

IsDigit(c) == Contains("0123456789", c)
IsAlpha(c) ==
    \/ Contains("ABCDEFGHIJKLMNOPQRSTUVWXYZ", c)
    \/ Contains(PrintableHigh, c) /\ Find(PrintableHigh, c) <= 26

\* '__0xx', xx the capitalized hex ascii value of the character
Escape(c) ==
    "__0" \o SubSeq(HexDigits, (Ord(c) \div 16) + 1, (Ord(c) \div 16) + 1)
          \o SubSeq(HexDigits, (Ord(c) % 16) + 1, (Ord(c) % 16) + 1)

\* the illegal characters at place i of a name: all but alphanumerics and
\* '_', a leading number, a second '_' in a row; after says that the
\* character before is a '_' that was kept
Illegal(c, i, after) ==
    \/ ~(IsAlpha(c) \/ IsDigit(c) \/ c = "_")
    \/ IsDigit(c) /\ i = 1
    \/ c = "_" /\ after

\* AstNode::encodeName from place i of name
RECURSIVE EncodeFrom(_, _, _)
EncodeFrom(name, i, after) ==
    IF i > Len(name) THEN ""
    ELSE IF Illegal(SubSeq(name, i, i), i, after)
    THEN Escape(SubSeq(name, i, i)) \o EncodeFrom(name, i + 1, FALSE)
    ELSE SubSeq(name, i, i) \o EncodeFrom(name, i + 1, SubSeq(name, i, i) = "_")

encodeName(name) == EncodeFrom(name, 1, FALSE)

\* the name verilator exposes for a hierarchical path: every segment
\* encoded, '__DOT__' in place of '.'
RECURSIVE Flatten(_)
Flatten(path) ==
    IF Len(path) = 0 THEN ""
    ELSE IF Len(path) = 1 THEN encodeName(path[1])
    ELSE encodeName(path[1]) \o "__DOT__" \o Flatten(Tail(path))

(***************************************************************************)
(* Signal handles and the io Collection.                                   *)
(***************************************************************************)
\* (mutation) the tier boundaries tested with < in place of <=
SignalTierStrict(width) ==
    IF width < 32 THEN "w32" ELSE IF width < 64 THEN "w64" ELSE "words"

\* Signal.__init__: the function stored in value_function_and_args
SignalTier(width) ==
    IF width <= 32 THEN "w32" ELSE IF width <= 64 THEN "w64" ELSE "words"

\* Input.__init__: the function stored in write_function_and_args
InputTier(width) ==
    IF width <= 32 THEN "w32" ELSE IF width <= 64 THEN "w64" ELSE "words"

\* (mutation) the word count rounded down
NumWordsFloor(width) == width \div 32

\* (width + 31) // 32
NumWords(width) == (width + 31) \div 32

\* Input(sim, name, width) / Output(sim, name, width)
Signal(cls, verilator_name, width) ==
    [cls |-> cls, verilator_name |-> verilator_name, width |-> width,
     modular_name |-> verilator_name_to_standard_modular_name(verilator_name).path]

\* (mutation) a handle filed under the name verilator exposes
ShortNameRaw(sig) == sig.verilator_name

\* Signal.short_name
short_name(sig) == sig.modular_name[Len(sig.modular_name)]

\* the handles _populate_signal_collections creates, the inputs and then
\* the outputs in list
IoSignals(list, num_inputs) ==
    [i \in 1..Len(list) |->
        Signal(IF i <= num_inputs THEN "Input" ELSE "Output", list[i][1], list[i][2])]

\* io_dict: the last handle stored under a key wins
io_dict(sigs) ==
    [k \in {short_name(sigs[i]) : i \in 1..Len(sigs)} |->
        sigs[CHOOSE i \in 1..Len(sigs) :
                /\ short_name(sigs[i]) = k
                /\ \A j \in (i + 1)..Len(sigs) : short_name(sigs[j]) # k]]

\* iter(self.io): the keys of io_dict in insertion order
RECURSIVE IoKeysFrom(_, _)
IoKeysFrom(sigs, i) ==
    IF i > Len(sigs) THEN <<>>
    ELSE IF \E j \in 1..(i - 1) : short_name(sigs[j]) = short_name(sigs[i])
         THEN IoKeysFrom(sigs, i + 1)
         ELSE <<short_name(sigs[i])>> \o IoKeysFrom(sigs, i + 1)

\* Collection(io_dict): _item_dict and the order of its keys
Collection(sigs) == [dict |-> io_dict(sigs), keys |-> IoKeysFrom(sigs, 1)]

\* a dict of build_nested_collection, and a value stored in one
Dict(items) == [kind |-> "dict", items |-> items]
Leaf(sig) == [kind |-> "signal", sig |-> sig]

\* d[key] = value
Stored(d, key, value) ==
    [d EXCEPT !.items = [k \in DOMAIN d.items \cup {key} |->
                            IF k = key THEN value ELSE d.items[k]]]

\* the body of the loop of build_nested_collection for one hierarchy_path:
\* each element before the last is made a dict if it is absent and entered,
\* and the value is stored under the last element; entering a value that
\* is a signal and then using it as a dict is a TypeError
RECURSIVE Nest(_, _, _)
Nest(curr_item, hierarchy_path, value) ==
    IF curr_item.kind # "dict" THEN [exc |-> "TypeError", item |-> curr_item]
    ELSE IF Len(hierarchy_path) = 1
    THEN [exc |-> None, item |-> Stored(curr_item, hierarchy_path[1], value)]
    ELSE LET elem == hierarchy_path[1]
             entered == IF elem \in DOMAIN curr_item.items
                        THEN curr_item.items[elem] ELSE Dict(<<>>)
             below == Nest(entered, Tail(hierarchy_path), value)
         IN  IF below.exc # None THEN below
             ELSE [exc |-> None, item |-> Stored(curr_item, elem, below.item)]

\* internals_dict[sig.modular_name] = sig, in the order of the list: a
\* modular name stored again keeps its place and takes the new handle
RECURSIVE internals_dict(_, _)
internals_dict(sigs, i) ==
    IF i = 0 THEN <<>>
    ELSE LET before == internals_dict(sigs, i - 1)
             at == {j \in 1..Len(before) : before[j].modular_name = sigs[i].modular_name}
         IN  IF at = {} THEN Append(before, sigs[i])
             ELSE [j \in 1..Len(before) |-> IF j \in at THEN sigs[i] ELSE before[j]]

\* the loop of build_nested_collection over flat_tuple_dict.items()
RECURSIVE nested_dict(_, _)
nested_dict(flat, i) ==
    IF i = 0 THEN [exc |-> None, item |-> Dict(<<>>)]
    ELSE LET before == nested_dict(flat, i - 1)
         IN  IF before.exc # None THEN before
             ELSE Nest(before.item, flat[i].modular_name, Leaf(flat[i]))

\* Collection.build_collection_recursive: the outer dict becomes a cls, the
\* dicts inside it become nested_class
RECURSIVE build_collection_recursive(_, _, _)
build_collection_recursive(cls, nested, nested_class) ==
    [kind |-> cls,
     items |-> [k \in DOMAIN nested.items |->
                    IF nested.items[k].kind = "dict"
                    THEN build_collection_recursive(nested_class, nested.items[k],
                                                    nested_class)
                    ELSE nested.items[k]]]

\* Collection.build_nested_collection(flat_tuple_dict, Submodule)
build_nested_collection(flat) ==
    LET nested == nested_dict(flat, Len(flat))
    IN  IF nested.exc # None THEN [exc |-> nested.exc, collection |-> None]
        ELSE [exc |-> None,
              collection |-> build_collection_recursive("Collection", nested.item,
                                                        "Submodule")]

\* the handles of the internal signals, made in the order of the list
InternalHandles(list) ==
    [i \in 1..Len(list) |-> Signal("InternalSignal", list[i][1], list[i][2])]

\* self.internals of _populate_signal_collections for the descriptors in
\* list, or the exception of a handle or of the nesting
Internals(list) ==
    IF \E i \in 1..Len(list) : verilator_name_to_standard_modular_name(list[i][1]).exc # None
    THEN [exc |-> verilator_name_to_standard_modular_name(
                    list[CHOOSE i \in 1..Len(list) :
                            /\ verilator_name_to_standard_modular_name(list[i][1]).exc # None
                            /\ \A j \in 1..(i - 1) :
                                verilator_name_to_standard_modular_name(list[j][1]).exc = None][1]).exc,
          collection |-> None]
    ELSE build_nested_collection(internals_dict(InternalHandles(list), Len(list)))

\* PyVerilator._populate_signal_collections: self.io
_populate_signal_collections(so) ==
    Collection(IoSignals(Inputs(so) \o Outputs(so), Len(Inputs(so))))

\* Signal.value: call value_function_and_args
SignalValue(s, sig) ==
    LET t == SignalTier(sig.width)
    IN  CASE t = "w32" -> _read_32(s, sig.verilator_name)
          [] t = "w64" -> _read_64(s, sig.verilator_name)
          [] OTHER -> _read_words(s, sig.verilator_name, NumWords(sig.width))

\* Input.write: call write_function_and_args
InputWrite(s, sig, value) ==
    LET t == InputTier(sig.width)
    IN  CASE t = "w32" -> _write_32(s, sig.verilator_name, value)
          [] t = "w64" -> _write_64(s, sig.verilator_name, value)
          [] OTHER -> _write_words(s, sig.verilator_name, NumWords(sig.width), value)

\* obj.collection_set(value) inside try/except: any exception, the missing
\* method of an Output included, becomes TypeError
Except(s) == IF s.exc # None THEN Raise(s, "TypeError") ELSE s

\* (mutation) a collection_set that every handle has
CollectionSetAny(s, obj, value) == Except(InputWrite(s, obj, value))

CollectionSet(s, obj, value) ==
    IF obj.cls # "Input" THEN Raise(s, "TypeError")
    ELSE Except(InputWrite(s, obj, value))

\* Collection.__getitem__ on self.io
Collection__getitem__(s, name) ==
    IF name \in DOMAIN s.io.dict
    THEN SignalValue(s, s.io.dict[name])
    ELSE Raise(s, "ValueError")

\* Collection.__setitem__ on self.io
Collection__setitem__(s, name, value) ==
    IF name \in DOMAIN s.io.dict
    THEN CollectionSet(s, s.io.dict[name], value)
    ELSE Raise(s, "ValueError")

\* keyword.iskeyword
PyKeywords ==
    {"False", "None", "True", "and", "as", "assert", "async", "await", "break",
     "class", "continue", "def", "del", "elif", "else", "except", "finally",
     "for", "from", "global", "if", "import", "in", "is", "lambda", "nonlocal",
     "not", "or", "pass", "raise", "return", "try", "while", "with", "yield"}

iskeyword(name) == name \in PyKeywords

\* (mutation) a lookup that tries the keyword escape before the key as given
AttrKeyEscapeFirst(d, name) ==
    LET unescaped == SubSeq(name, 1, Len(name) - 1)
    IN  IF EndsWith(name, "_") /\ iskeyword(unescaped) /\ unescaped \in DOMAIN d
        THEN unescaped
        ELSE IF name \in DOMAIN d THEN name
        ELSE None

\* the lookup shared by Collection.__getattr__ and __setattr__: the key as
\* given, then the keyword escape, then the class-local prefix
AttrKey(d, name) ==
    LET class_local_prefix == "_Collection__"
        unescaped == SubSeq(name, 1, Len(name) - 1)
        unprefixed == SubSeq(name, Len(class_local_prefix) + 1, Len(name))
    IN  IF name \in DOMAIN d THEN name
        ELSE IF EndsWith(name, "_") /\ iskeyword(unescaped) /\ unescaped \in DOMAIN d
             THEN unescaped
        ELSE IF StartsWith(name, class_local_prefix) /\ unprefixed \in DOMAIN d
             THEN unprefixed
        ELSE None

\* the assignment of __setattr__ once the key is found
SetAttrKey(s, key, value) ==
    IF key # None THEN CollectionSet(s, s.io.dict[key], value)
    ELSE Raise(s, "ValueError")

\* Collection.__setattr__ on self.io, for a name that is not one of the two
\* fields of the Collection itself
Collection__setattr__(s, name, value) == SetAttrKey(s, AttrKey(s.io.dict, name), value)

\* the end of __getattr__ once the key is looked up
GetAttrKey(s, key) ==
    IF key # None THEN SignalValue(s, s.io.dict[key])
    ELSE Raise(s, "AttributeError")

\* Collection.__getattr__ on self.io, which Python calls for a name that is
\* not a field or a method of the Collection itself
Collection__getattr__(s, name) == GetAttrKey(s, AttrKey(s.io.dict, name))

\* the width search of _read / _write; -1 is None
RECURSIVE PortWidth(_, _, _)
PortWidth(list, port_name, i) ==
    IF i = 0 THEN -1
    ELSE IF list[i][1] = port_name THEN list[i][2]
    ELSE PortWidth(list, port_name, i - 1)

\* the dispatch of _read on the width found
ReadTier(s, port_name, port_width) ==
    IF port_width = -1 THEN Raise(s, "ValueError")
    ELSE IF port_width > 64 THEN _read_words(s, port_name, NumWords(port_width))
    ELSE IF port_width > 32 THEN _read_64(s, port_name)
    ELSE _read_32(s, port_name)

\* self.inputs + self.outputs + self.internal_signals
AllSignals(so) == Inputs(so) \o Outputs(so) \o InternalSignals(so)

\* PyVerilator._read (sim[name])
_read(s, port_name) ==
    ReadTier(s, port_name,
             PortWidth(AllSignals(s.so_file), port_name, Len(AllSignals(s.so_file))))

\* the dispatch of _write on the width found
WriteTier(s, port_name, value, port_width) ==
    IF port_width = -1 THEN Raise(s, "ValueError")
    ELSE IF port_width > 64 THEN _write_words(s, port_name, NumWords(port_width), value)
    ELSE IF port_width > 32 THEN _write_64(s, port_name, value)
    ELSE _write_32(s, port_name, value)

\* (mutation) a write that evaluates before it looks the name up
WriteEvalsFirst(s, port_name, value) ==
    WriteTier(eval(s), port_name, value,
              PortWidth(Inputs(s.so_file), port_name, Len(Inputs(s.so_file))))

\* PyVerilator._write (sim[name] = value)
_write(s, port_name, value) ==
    WriteTier(s, port_name, value,
              PortWidth(Inputs(s.so_file), port_name, Len(Inputs(s.so_file))))

(***************************************************************************)
(* The trace lifecycle and the viewer.                                     *)
(***************************************************************************)
default_vcd_filename == "gtkwave.vcd"

\* (mutation) a start that keeps the timestamp of the session before
OpenTraceNoReset(s, filename, auto_tracing) ==
    add_to_vcd_trace(
        Log([s EXCEPT !.tfps = NativeStartVcdTrace(@, filename),
                      !.vcd_trace = Len(s.tfps) + 1,
                      !.vcd_filename = filename,
                      !.auto_tracing_mode =
                          IF ~auto_tracing THEN None
                          ELSE IF s.clock # None THEN "clock"
                          ELSE "eval"],
            TraceCall("start_vcd_trace", Len(s.tfps) + 1, 0)))

\* start_vcd_trace past its guard: the native call, the fields of the
\* session and the initial samples
OpenTrace(s, filename, auto_tracing) ==
    add_to_vcd_trace(
        Log([s EXCEPT !.tfps = NativeStartVcdTrace(@, filename),
                      !.vcd_trace = Len(s.tfps) + 1,
                      !.vcd_filename = filename,
                      !.auto_tracing_mode =
                          IF ~auto_tracing THEN None
                          ELSE IF s.clock # None THEN "clock"
                          ELSE "eval",
                      !.curr_time = 0],
            TraceCall("start_vcd_trace", Len(s.tfps) + 1, 0)))

\* (mutation) a start that resets the timestamp before it checks
StartResetsFirst(s, filename, auto_tracing) ==
    IF s.vcd_trace # NullPtr THEN Raise([s EXCEPT !.curr_time = 0], "ValueError")
    ELSE OpenTrace(s, filename, auto_tracing)

\* (mutation) a start without the guard
StartUnguarded(s, filename, auto_tracing) == OpenTrace(s, filename, auto_tracing)

\* PyVerilator.start_vcd_trace
start_vcd_trace(s, filename, auto_tracing) ==
    IF s.vcd_trace # NullPtr THEN Raise(s, "ValueError")
    ELSE OpenTrace(s, filename, auto_tracing)

\* (mutation) a stop that leaves the auto-tracing mode set
StopKeepsMode(s) ==
    IF s.vcd_trace = NullPtr THEN Raise(s, "ValueError")
    ELSE Log([s EXCEPT !.tfps = NativeStopVcdTrace(@, s.vcd_trace),
                       !.vcd_trace = NullPtr,
                       !.vcd_filename = None],
             TraceCall("stop_vcd_trace", s.vcd_trace, 0))

\* (mutation) a stop that leaves the filename set
StopKeepsFilename(s) ==
    IF s.vcd_trace = NullPtr THEN Raise(s, "ValueError")
    ELSE Log([s EXCEPT !.tfps = NativeStopVcdTrace(@, s.vcd_trace),
                       !.vcd_trace = NullPtr,
                       !.auto_tracing_mode = None],
             TraceCall("stop_vcd_trace", s.vcd_trace, 0))

\* PyVerilator.stop_vcd_trace
stop_vcd_trace(s) ==
    IF s.vcd_trace = NullPtr THEN Raise(s, "ValueError")
    ELSE Log([s EXCEPT !.tfps = NativeStopVcdTrace(@, s.vcd_trace),
                       !.vcd_trace = NullPtr,
                       !.auto_tracing_mode = None,
                       !.vcd_filename = None],
             TraceCall("stop_vcd_trace", s.vcd_trace, 0))

\* self.gtkwave_active = True, unless start_vcd_trace raised
GtkwaveStarted(s) == IF s.exc # None THEN s ELSE [s EXCEPT !.gtkwave_active = TRUE]

\* PyVerilator.start_gtkwave; the viewer process itself is not modelled
start_gtkwave(s) ==
    GtkwaveStarted(IF s.vcd_filename = None
                   THEN start_vcd_trace(s, default_vcd_filename, TRUE)
                   ELSE s)

\* the last statement of stop_gtkwave
GtkwaveStopped(s) ==
    IF s.vcd_filename = default_vcd_filename THEN stop_vcd_trace(s) ELSE s

\* PyVerilator.stop_gtkwave
stop_gtkwave(s) ==
    IF ~s.gtkwave_active THEN Raise(s, "ValueError")
    ELSE GtkwaveStopped([s EXCEPT !.gtkwave_active = FALSE])

\* PyVerilator.send_signal_to_gtkwave; found is the number of facilities
\* the viewer reports for the name
send_signal_to_gtkwave(s, sig, found) ==
    IF ~s.gtkwave_active THEN Raise(s, "ValueError")
    ELSE IF "verilator_name" \notin DOMAIN sig THEN Raise(s, "TypeError")
    ELSE IF found < 1 THEN Raise(s, "ValueError")
    ELSE s

\* PyVerilator.finished (getter): the int the library returns
finished_getter(s) ==
    [Log(s, NativeCall("get_finished", None, None, <<>>, NativeGetFinished(s)))
        EXCEPT !.ret = NativeGetFinished(s)]

\* (mutation) a setter that does not reach the library
SetterDropsValue(s, b) == Log(s, NativeCall("set_finished", None, None, <<>>, {}))

\* PyVerilator.finished (setter)
finished_setter(s, b) ==
    Log(NativeSetFinished(s, b), NativeCall("set_finished", None, None, <<>>, {}))

\* ctype_cb(lambda *args: cb(self, *args)) if cb else None
Wrapped(s, cb) == IF cb = None THEN NoCallback ELSE [cb |-> cb, self |-> s.self]

\* (mutation) a registration that keeps a callback already registered
KeepsFirstCallback(s, cb) ==
    IF s._lib_vl_finish_callback # NoCallback
    THEN Log(s, NativeCall("set_vl_finish_callback", None, None, <<>>, {}))
    ELSE Log(NativeSetVlFinishCallback([s EXCEPT !._lib_vl_finish_callback = Wrapped(s, cb)],
                                       Wrapped(s, cb)),
             NativeCall("set_vl_finish_callback", None, None, <<>>, {}))

\* PyVerilator.set_vl_finish_callback
set_vl_finish_callback(s, cb) ==
    Log(NativeSetVlFinishCallback([s EXCEPT !._lib_vl_finish_callback = Wrapped(s, cb)],
                                  Wrapped(s, cb)),
        NativeCall("set_vl_finish_callback", None, None, <<>>, {}))

(***************************************************************************)
(* Construction.                                                           *)
(***************************************************************************)
UpperCase == "ABCDEFGHIJKLMNOPQRSTUVWXYZ"
LowerCase == "abcdefghijklmnopqrstuvwxyz"

LowerChar(c) ==
    IF \E i \in 1..26 : SubSeq(UpperCase, i, i) = c
    THEN LET i == CHOOSE k \in 1..26 : SubSeq(UpperCase, k, k) = c
         IN  SubSeq(LowerCase, i, i)
    ELSE c

\* str.lower()
RECURSIVE Lower(_)
Lower(str) ==
    IF Len(str) = 0 THEN ""
    ELSE LowerChar(SubSeq(str, 1, 1)) \o Lower(SubSeq(str, 2, Len(str)))

\* the test of one of the three loops of __init__ on sig_name
ClockTest(sig_name, pass) ==
    CASE pass = 1 -> Lower(sig_name) = "clock" \/ Lower(sig_name) = "clk"
      [] pass = 2 -> StartsWith(sig_name, "clock") \/ StartsWith(sig_name, "clk")
      [] OTHER -> EndsWith(sig_name, "clock") \/ EndsWith(sig_name, "clk")

\* the three loops of __init__ that pick the clock, from keys[i] of loop
\* pass on: the key they stop at, or None
RECURSIVE ClockKey(_, _, _)
ClockKey(keys, i, pass) ==
    IF pass > 3 THEN None
    ELSE IF i > Len(keys) THEN ClockKey(keys, 1, pass + 1)
    ELSE IF ClockTest(keys[i], pass) THEN keys[i]
    ELSE ClockKey(keys, i + 1, pass)

\* Clock.__init__ on input_, the handle the loops stopped at
Clock(input_) ==
    IF input_.cls # "Input" THEN [exc |-> "TypeError", clock |-> None]
    ELSE IF input_.width # 1 THEN [exc |-> "ValueError", clock |-> None]
    ELSE [exc |-> None, clock |-> input_.verilator_name]

\* self.clock = Clock(self.io[sig_name].signal) for the key found, if any
BindClock(s, key) ==
    IF key = None THEN s
    ELSE IF Clock(s.io.dict[key]).exc # None THEN Raise(s, Clock(s.io.dict[key]).exc)
    ELSE [s EXCEPT !.clock = Clock(s.io.dict[key]).clock]

\* the Clock handle bound at construction: Input.__init__ on the name and the
\* width of the input it was made from
ClockHandle(s) == Signal("Clock", s.clock, 1)

\* the second statement of tick, reached when the first returned
TickHigh(s) == IF s.exc # None THEN s ELSE InputWrite(s, ClockHandle(s), {0})

\* (mutation) a tick that writes 1 and then 0
TickReversed(s) ==
    IF s.clock = None THEN Raise(s, "AttributeError")
    ELSE InputWrite(InputWrite(s, ClockHandle(s), {0}), ClockHandle(s), {})

\* sim.clock.tick(): Clock.tick, or the attribute error of None
tick(s) ==
    IF s.clock = None THEN Raise(s, "AttributeError")
    ELSE TickHigh(InputWrite(s, ClockHandle(s), {}))

\* PyVerilator._sim_init: write 0 to inputs[i..]
RECURSIVE _sim_init(_, _)
_sim_init(s, i) ==
    IF i > Len(Inputs(s.so_file)) \/ s.exc # None THEN s
    ELSE _sim_init(_write(s, Inputs(s.so_file)[i][1], {}), i + 1)

\* the end of __init__: self.clock
ClockBound(s) ==
    IF s.exc # None THEN s ELSE BindClock(s, ClockKey(s.io.keys, 1, 1))

\* the exception of the first handle constructor that raises in
\* _populate_signal_collections, over list[i..]: Signal.__init__ decodes the name
RECURSIVE PopulateExc(_, _)
FirstExc(e, list, i) == IF e # None THEN e ELSE PopulateExc(list, i + 1)

PopulateExc(list, i) ==
    IF i > Len(list) THEN None
    ELSE FirstExc(verilator_name_to_standard_modular_name(list[i][1]).exc, list, i)

\* self.io = Collection(io_dict), unless a constructor raised
IoBuilt(s, e) ==
    IF e # None THEN Raise(s, e)
    ELSE [s EXCEPT !.io = _populate_signal_collections(s.so_file)]

\* the call of _populate_signal_collections in __init__
Populated(s) ==
    IF s.exc # None THEN s ELSE IoBuilt(s, PopulateExc(AllSignals(s.so_file), 1))

\* an instance before _populate_signal_collections has no io
NoIo == [dict |-> <<>>, keys |-> <<>>]

\* PyVerilator.__init__
__init__(so, ae) ==
    ClockBound(Populated(_sim_init([so_file |-> so,
                          top |-> NativeConstruct(so),
                          io |-> NoIo,
                          auto_eval |-> ae,
                          vcd_filename |-> None,
                          vcd_trace |-> NullPtr,
                          auto_tracing_mode |-> None,
                          curr_time |-> 0,
                          gtkwave_active |-> FALSE,
                          clock |-> None,
                          tfps |-> <<>>,
                          finished |-> FALSE,
                          vl_finish_callback |-> NoCallback,
                          _lib_vl_finish_callback |-> NoCallback,
                          self |-> "sim_1",
                          calls |-> <<>>,
                          ret |-> {},
                          exc |-> None], 1)))

(***************************************************************************)
(* The state machine: one instance and the caller's operations on it.      *)
(***************************************************************************)
VARIABLES so_file, top, io, auto_eval, vcd_filename, vcd_trace, auto_tracing_mode,
          curr_time, gtkwave_active, clock, tfps, calls, ret, exc, op,
          written, stale, fed, decoding,
          finished, vl_finish_callback, _lib_vl_finish_callback, registered,
          peer, lib, model, released, internals

vars == <<so_file, top, io, auto_eval, vcd_filename, vcd_trace, auto_tracing_mode,
          curr_time, gtkwave_active, clock, tfps, calls, ret, exc, op,
          written, stale, fed, decoding,
          finished, vl_finish_callback, _lib_vl_finish_callback, registered,
          peer, lib, model, released, internals>>

\* (mutation) every load gives the library loaded first
OneLibraryForAll(a, b) == TRUE

\* (mutation) every load gives a library of its own
NeverSameLibrary(a, b) == FALSE

\* ctypes.CDLL(so_file) of two instances: one path is loaded once, and the
\* two instances then hold the same library
SameLibrary(a, b) == a = b

\* the finished flag and the callback slot belong to the library: what an
\* operation on one instance left in them is what an instance p on the same
\* library finds
Mirrored(p, r) ==
    IF SameLibrary(p.so_file, r.so_file)
    THEN [p EXCEPT !.finished = r.finished, !.vl_finish_callback = r.vl_finish_callback]
    ELSE p

\* no second instance
NoPeer == [so_file |-> None, finished |-> FALSE, vl_finish_callback |-> NoCallback]

\* the instance as the operation finds it: nothing called, returned or raised yet
Self ==
    [so_file |-> so_file, top |-> top, io |-> io, auto_eval |-> auto_eval,
     vcd_filename |-> vcd_filename, vcd_trace |-> vcd_trace,
     auto_tracing_mode |-> auto_tracing_mode, curr_time |-> curr_time,
     gtkwave_active |-> gtkwave_active, clock |-> clock, tfps |-> tfps,
     finished |-> finished, vl_finish_callback |-> vl_finish_callback,
     _lib_vl_finish_callback |-> _lib_vl_finish_callback, self |-> "sim_1",
     calls |-> <<>>, ret |-> {}, exc |-> None]

\* the operation the caller issued: op records it, written the last value
\* each input was successfully given, stale whether a setter ran after the
\* last eval, fed what the caller has clocked into the register chain of the
\* design: fed[k] is the data that stood at the inputs k rising edges ago,
\* registered the finish callbacks the caller has registered, in order
Operation(kind, name, value, port, flag) ==
    [kind |-> kind, name |-> name, value |-> value, port |-> port, flag |-> flag]

WriteKinds == {"write", "tick"}

LastIndex(log, fn) ==
    IF \E i \in 1..Len(log) : log[i].fn = fn
    THEN CHOOSE i \in 1..Len(log) :
            log[i].fn = fn /\ \A j \in (i + 1)..Len(log) : log[j].fn # fn
    ELSE 0

\* the caller raised the clock input: a tick, or a write of 1 over a 0
RisingEdge(r, o) ==
    /\ r.exc = None
    /\ Stages(r.so_file) > 0
    /\ \/ o.kind = "tick"
       \/ o.kind = "write" /\ o.port = "clk" /\ 0 \in o.value /\ 0 \notin written["clk"]

\* the data at the head of the chain, as last written
DataIn(so, w) == IF so = "clocked" THEN w["d"] ELSE Concatenation(w)

\* the registers after one more edge: cleared under reset, shifted otherwise
Clocked(so, w, chain) ==
    IF so = "internal_test" /\ 0 \notin w["rst_n"]
    THEN [k \in 1..Stages(so) |-> {}]
    ELSE <<DataIn(so, w)>> \o SubSeq(chain, 1, Stages(so) - 1)

\* PyVerilator(so_file, auto_eval) returned an instance
Exists == ~(op.kind = "__init__" /\ exc # None)

Committed(r, o) ==
    /\ Exists
    /\ r.curr_time <= 10 * MaxAppends
    /\ Len(r.tfps) <= MaxSessions
    /\ so_file' = r.so_file
    /\ top' = r.top
    /\ io' = r.io
    /\ auto_eval' = r.auto_eval
    /\ vcd_filename' = r.vcd_filename
    /\ vcd_trace' = r.vcd_trace
    /\ auto_tracing_mode' = r.auto_tracing_mode
    /\ curr_time' = r.curr_time
    /\ gtkwave_active' = r.gtkwave_active
    /\ clock' = r.clock
    /\ tfps' = r.tfps
    /\ finished' = r.finished
    /\ vl_finish_callback' = r.vl_finish_callback
    /\ _lib_vl_finish_callback' = r._lib_vl_finish_callback
    /\ calls' = r.calls
    /\ ret' = r.ret
    /\ exc' = r.exc
    /\ op' = o
    /\ written' = IF o.kind \in WriteKinds /\ r.exc = None
                  THEN [written EXCEPT ![o.port] = o.value]
                  ELSE written
    /\ fed' = IF RisingEdge(r, o) THEN Clocked(r.so_file, written, fed) ELSE fed
    /\ decoding' = decoding
    /\ peer' = Mirrored(peer, r)
    /\ UNCHANGED <<lib, model, released, internals>>
    /\ registered' = IF o.kind = "set_vl_finish_callback" /\ r.exc = None
                     THEN Append(registered, o.name)
                     ELSE registered
    /\ stale' = IF LastIndex(r.calls, "set") > LastIndex(r.calls, "eval") THEN TRUE
                ELSE IF LastIndex(r.calls, "eval") > 0 THEN FALSE
                ELSE stale

\* the operation runs to completion: r is the instance it leaves behind
Commit(result, operation) ==
    \E r \in {result} : \E o \in {operation} : Committed(r, o)

\* the values the caller writes
SeedPattern(name) ==
    CASE name = "input_a" -> FromHex(<<10, 10>>)
      [] name = "input_b" -> FromHex(<<1, 11, 11, 11>>)
      [] name = "input_c" -> FromHex(<<3>> \o Rep(12, 7))
      [] name = "input_d" -> FromHex(<<7>> \o Rep(13, 15))
      [] name = "input_e" -> FromHex(<<15>> \o Rep(14, 31))
      [] name \in {"in", "clk_div"} -> FromHex(<<7>>)
      [] OTHER -> FromHex(<<10, 10>> \o Rep(0, 6) \o <<10, 10>>)

ValuesFor(so, name) ==
    IF name \notin Names(Inputs(so)) THEN {{0}}
    ELSE IF so \in PassDesigns
    THEN LET w == PassWidth(so)
         IN  {{}, 0..(w - 1), {w - 1}}
    ELSE IF WidthOf(so, name) = 1 THEN {{}, {0}}
    ELSE IF so = "internal_test" /\ name \in {"input_b", "input_c", "input_d", "input_e"}
         THEN {{}}
    ELSE {{}, SeedPattern(name)}

Unknown == "nonexistent"
RawNames(so) == Names(Inputs(so)) \cup Names(Outputs(so)) \cup {Unknown}
KeyNames == DOMAIN io.dict \cup {Unknown}

\* the attribute names the caller uses: the keys, a keyword key with the
\* underscore that escapes it, and not the two fields of the Collection
AttrNames ==
    (KeyNames \cup {k \o "_" : k \in DOMAIN io.dict \cap PyKeywords})
        \ {"_item_dict", "_item_dict_keys"}
Filenames == {"test.vcd", default_vcd_filename}

\* the verilator name a key of self.io stands for
PortOfKey(key) ==
    IF key = None \/ key \notin DOMAIN io.dict THEN None
    ELSE io.dict[key].verilator_name

\* sim[name] = value
WriteItem ==
    \E name \in RawNames(so_file) : \E value \in ValuesFor(so_file, name) :
        Commit(_write(Self, name, value),
               Operation("write", name, value, name, FALSE))

\* sim.io[name] = value
WriteIoItem ==
    \E name \in KeyNames : \E value \in ValuesFor(so_file, PortOfKey(name)) :
        Commit(Collection__setitem__(Self, name, value),
               Operation("write", name, value, PortOfKey(name), FALSE))

\* sim.io.name = value
WriteIoAttr ==
    \E name \in AttrNames :
        LET port == PortOfKey(AttrKey(io.dict, name))
        IN  \E value \in ValuesFor(so_file, port) :
                Commit(Collection__setattr__(Self, name, value),
                       Operation("write", name, value, port, FALSE))

\* sim.io[name].signal.write(value) on an Input handle
WriteInput ==
    \E name \in DOMAIN io.dict :
        /\ io.dict[name].cls = "Input"
        /\ \E value \in ValuesFor(so_file, PortOfKey(name)) :
                Commit(InputWrite(Self, io.dict[name], value),
                       Operation("write", name, value, PortOfKey(name), FALSE))

\* sim[name]
ReadItem ==
    \E name \in RawNames(so_file) :
        Commit(_read(Self, name), Operation("read", name, {}, name, FALSE))

\* sim.io[name]
ReadIoItem ==
    \E name \in KeyNames :
        Commit(Collection__getitem__(Self, name),
               Operation("read", name, {}, PortOfKey(name), FALSE))

\* sim.io.name
ReadIoAttr ==
    \E name \in AttrNames :
        Commit(Collection__getattr__(Self, name),
               Operation("read", name, {}, PortOfKey(AttrKey(io.dict, name)), FALSE))

\* sim.eval()
Eval == Commit(eval(Self), Operation("eval", None, {}, None, FALSE))

\* sim.clock.tick()
Tick == Commit(tick(Self), Operation("tick", clock, {0}, clock, FALSE))

\* sim.finished
GetFinished ==
    Commit(finished_getter(Self), Operation("get_finished", None, {}, None, FALSE))

\* sim.finished = b
SetFinished ==
    \E b \in BOOLEAN :
        Commit(finished_setter(Self, b), Operation("set_finished", None, {}, None, b))

\* the callbacks the caller has, and None
Callbacks == {"cb1", "cb2"}

\* sim.set_vl_finish_callback(cb)
SetVlFinishCallback ==
    \E cb \in Callbacks \cup {None} :
        /\ Len(registered) < MaxRegistrations
        /\ Commit(set_vl_finish_callback(Self, cb),
                  Operation("set_vl_finish_callback", cb, {}, None, FALSE))

\* sim.start_vcd_trace(filename, auto_tracing)
StartVcdTrace ==
    \E filename \in Filenames : \E auto_tracing \in BOOLEAN :
        Commit(start_vcd_trace(Self, filename, auto_tracing),
               Operation("start_vcd_trace", filename, {}, None, auto_tracing))

\* sim.add_to_vcd_trace()
AddToVcdTrace ==
    Commit(add_to_vcd_trace(Self), Operation("add_to_vcd_trace", None, {}, None, FALSE))

\* sim.flush_vcd_trace()
FlushVcdTrace ==
    Commit(flush_vcd_trace(Self), Operation("flush_vcd_trace", None, {}, None, FALSE))

\* sim.stop_vcd_trace()
StopVcdTrace ==
    Commit(stop_vcd_trace(Self), Operation("stop_vcd_trace", None, {}, None, FALSE))

\* sim.start_gtkwave()
StartGtkwave ==
    Commit(start_gtkwave(Self), Operation("start_gtkwave", None, {}, None, FALSE))

\* sim.stop_gtkwave()
StopGtkwave ==
    Commit(stop_gtkwave(Self), Operation("stop_gtkwave", None, {}, None, FALSE))

\* a call of the module-level decoder by hand: source is the hierarchical
\* name as the designer wrote it, marker and place an array marker put into
\* the name verilator exposes, verilator_name that name, called whether the
\* decoder has run, exc what it raised and path what it returned
Decoding(source, marker, place, name) ==
    [source |-> source, marker |-> marker, place |-> place,
     verilator_name |-> name, called |-> FALSE, exc |-> None, path |-> <<>>]

\* no such call
NotDecoding == Decoding(<<>>, "", "front", "")

\* the call PyVerilator(so_file, auto_eval): the instance it returns, or the
\* exception it raises
Built(designs) ==
    \E so \in designs : \E ae \in BOOLEAN : \E s \in {__init__(so, ae)} :
            /\ so_file = s.so_file
            /\ top = s.top
            /\ io = s.io
            /\ auto_eval = s.auto_eval
            /\ vcd_filename = s.vcd_filename
            /\ vcd_trace = s.vcd_trace
            /\ auto_tracing_mode = s.auto_tracing_mode
            /\ curr_time = s.curr_time
            /\ gtkwave_active = s.gtkwave_active
            /\ clock = s.clock
            /\ tfps = s.tfps
            /\ finished = s.finished
            /\ vl_finish_callback = s.vl_finish_callback
            /\ _lib_vl_finish_callback = s._lib_vl_finish_callback
            /\ calls = <<>>
            /\ ret = {}
            /\ exc = s.exc
            /\ op = Operation("__init__", so, {}, None, ae)
            /\ written = [n \in Names(Inputs(so)) |-> {}]
            /\ stale = ~ae
            /\ fed = [k \in 1..Stages(so) |-> {}]
            /\ decoding = NotDecoding
            /\ registered = <<>>
            /\ lib = so /\ model = ModelOf(so) /\ released = 0
            /\ internals = Internals(InternalSignals(so))

\* the instance PyVerilator(so_file, auto_eval) returns
Constructed(designs) == Built(designs) /\ exc = None /\ peer = NoPeer

\* the whole facade on a clocked design and on a multi-word one
TraceDesigns == {"clocked", "passthrough_65"}

Init == Constructed(TraceDesigns)

Next ==
    \/ WriteItem
    \/ WriteIoItem
    \/ WriteIoAttr
    \/ WriteInput
    \/ ReadItem
    \/ ReadIoItem
    \/ Eval
    \/ StartVcdTrace
    \/ AddToVcdTrace
    \/ FlushVcdTrace
    \/ StopVcdTrace
    \/ StartGtkwave
    \/ StopGtkwave

Spec == Init /\ [][Next]_vars

\* the session open after the operation was opened by start_gtkwave: a
\* session the operation opened itself is, if the operation is
\* start_gtkwave; one that was open before is as it was
WasImplicit == "implicit" \in DOMAIN op /\ op.implicit

Implicit(kind, r) ==
    IF r.vcd_trace = NullPtr THEN FALSE
    ELSE IF r.vcd_trace # vcd_trace THEN kind = "start_gtkwave"
    ELSE WasImplicit

\* an operation on the trace or the viewer, with who opened the session
ViewerOperation(kind, name, flag, r) ==
    [kind |-> kind, name |-> name, value |-> {}, port |-> None, flag |-> flag,
     implicit |-> Implicit(kind, r)]

ViewerCommit(result, kind, name, flag) ==
    \E r \in {result} : Committed(r, ViewerOperation(kind, name, flag, r))

\* sim.start_vcd_trace(filename, auto_tracing)
ViewerStartVcdTrace ==
    \E filename \in Filenames : \E auto_tracing \in BOOLEAN :
        ViewerCommit(start_vcd_trace(Self, filename, auto_tracing),
                     "start_vcd_trace", filename, auto_tracing)

\* sim.stop_vcd_trace()
ViewerStopVcdTrace == ViewerCommit(stop_vcd_trace(Self), "stop_vcd_trace", None, FALSE)

\* sim.start_gtkwave()
ViewerStartGtkwave == ViewerCommit(start_gtkwave(Self), "start_gtkwave", None, FALSE)

\* sim.stop_gtkwave()
ViewerStopGtkwave == ViewerCommit(stop_gtkwave(Self), "stop_gtkwave", None, FALSE)

\* sim.eval()
ViewerEval == ViewerCommit(eval(Self), "eval", None, FALSE)

\* sim.send_signal_to_gtkwave(sig), sig a handle of sim.io or a string
SendSignalToGtkwave ==
    \E sig \in {io.dict[k] : k \in DOMAIN io.dict} \cup {[text |-> "a"]} :
    \E found \in {0, 1} :
        ViewerCommit(send_signal_to_gtkwave(Self, sig, found),
                     "send_signal_to_gtkwave", sig, found = 1)

NextViewer ==
    \/ ViewerStartVcdTrace
    \/ ViewerStopVcdTrace
    \/ ViewerStartGtkwave
    \/ ViewerStopGtkwave
    \/ ViewerEval
    \/ SendSignalToGtkwave

SpecViewer == Init /\ [][NextViewer]_vars

\* reads, writes and evals on every design
InitWidth == Constructed(AllDesigns)

NextWidth ==
    \/ WriteItem
    \/ WriteIoItem
    \/ ReadItem
    \/ ReadIoItem
    \/ Eval

SpecWidth == InitWidth /\ [][NextWidth]_vars

\* ticks, writes, reads and evals on the two-stage register chain
ClockDesigns == {"internal_test"}

InitClock == Constructed(ClockDesigns)

NextClock ==
    \/ Tick
    \/ WriteItem
    \/ ReadItem
    \/ Eval

SpecClock == InitClock /\ [][NextClock]_vars

\* construction and the signal namespace on the designs of NameTable
InitNames == Built(NameDesigns) /\ peer = NoPeer

NextNames ==
    \/ WriteItem
    \/ WriteIoItem
    \/ WriteIoAttr
    \/ ReadItem
    \/ ReadIoItem
    \/ ReadIoAttr
    \/ Eval

SpecNames == InitNames /\ [][NextNames]_vars

\* the finished flag and the finish callback on finish_tester
FinishDesigns == {"finish_tester"}

InitFinish == Constructed(FinishDesigns)

NextFinish ==
    \/ WriteItem
    \/ Eval
    \/ GetFinished
    \/ SetFinished
    \/ SetVlFinishCallback

SpecFinish == InitFinish /\ [][NextFinish]_vars

\* sim_2 as its operation finds it
PeerSelf == [peer EXCEPT !.calls = <<>>, !.ret = {}, !.exc = None]

\* an operation of the caller on sim_2
PeerOperation(kind, name, value) ==
    [kind |-> kind, name |-> name, value |-> value, port |-> name, flag |-> FALSE,
     self |-> "sim_2"]

\* an operation on sim_2 runs to completion: r is the instance it leaves
\* behind; the library of sim_1 holds what it left there when it is the same
PeerCommitted(r, o) ==
    /\ Exists
    /\ peer' = r
    /\ finished' = Mirrored(Self, r).finished
    /\ vl_finish_callback' = Mirrored(Self, r).vl_finish_callback
    /\ calls' = r.calls
    /\ ret' = r.ret
    /\ exc' = r.exc
    /\ op' = o
    /\ UNCHANGED <<so_file, top, io, auto_eval, vcd_filename, vcd_trace,
                   auto_tracing_mode, curr_time, gtkwave_active, clock, tfps,
                   written, stale, fed, decoding, _lib_vl_finish_callback,
                   registered, lib, model, released, internals>>

PeerCommit(result, operation) ==
    \E r \in {result} : \E o \in {operation} : PeerCommitted(r, o)

\* the writes of finish_sim in the tests: do_finish, and the clock up and down
PairNames == {"clk", "do_finish"}

\* sim_1[name] = value
PairWriteItem ==
    \E name \in PairNames : \E value \in ValuesFor(so_file, name) :
        Commit(_write(Self, name, value),
               Operation("write", name, value, name, FALSE))

\* sim_1.set_vl_finish_callback(cb)
PairSetVlFinishCallback ==
    \E cb \in {"cb1", None} :
        /\ Len(registered) < MaxRegistrations
        /\ Commit(set_vl_finish_callback(Self, cb),
                  Operation("set_vl_finish_callback", cb, {}, None, FALSE))

\* sim_2[name] = value
PeerWriteItem ==
    \E name \in PairNames : \E value \in ValuesFor(peer.so_file, name) :
        PeerCommit(_write(PeerSelf, name, value), PeerOperation("write", name, value))

\* sim_2.finished
PeerGetFinished ==
    PeerCommit(finished_getter(PeerSelf), PeerOperation("get_finished", None, {}))

\* sim_2.set_vl_finish_callback(cb)
PeerSetVlFinishCallback ==
    \E cb \in {"cb2", None} :
        PeerCommit(set_vl_finish_callback(PeerSelf, cb),
                   PeerOperation("set_vl_finish_callback", cb, {}))

\* PyVerilator.build(file) twice: build makes instances with auto_eval on;
\* sim_2 is built from the file of sim_1 or from a second file
Peer(so) == [__init__(so, TRUE) EXCEPT !.self = "sim_2"]

InitPair ==
    /\ Built(FinishDesigns)
    /\ auto_eval /\ exc = None
    /\ \E so \in FinishTesters : peer = Mirrored(Peer(so), Self)

NextPair ==
    \/ PairWriteItem
    \/ GetFinished
    \/ PairSetVlFinishCallback
    \/ PeerWriteItem
    \/ PeerGetFinished
    \/ PeerSetVlFinishCallback

SpecPair == InitPair /\ [][NextPair]_vars

(***************************************************************************)
(* The glue code generator, build, and the life of an instance.  The       *)
(* generated text is held as what it declares: the metadata variables with *)
(* their values and the functions with the type of their value.  calls     *)
(* logs what build does outside the process, in order.                     *)
(***************************************************************************)
\* one accessor of get_functions / set_functions: the signature is chosen
\* by the width of the descriptor
Accessor(prefix, port) ==
    [name |-> prefix \o port[1], width |-> port[2],
     abi |-> IF port[2] > 64 THEN "word" ELSE IF port[2] > 32 THEN "uint64_t" ELSE "uint32_t"]

get_functions(inputs, outputs, internal_signals) ==
    LET ports == outputs \o inputs \o internal_signals
    IN  [i \in 1..Len(ports) |-> Accessor("get_", ports[i])]

set_functions(inputs) == [i \in 1..Len(inputs) |-> Accessor("set_", inputs[i])]

\* the functions of constant_part
constant_part ==
    <<"construct", "eval", "destruct", "start_vcd_trace", "add_to_vcd_trace",
      "flush_vcd_trace", "stop_vcd_trace">>

\* the variables var_declaration_cpp defines
var_declaration_cpp ==
    {"_pyverilator_module_name", "_pyverilator_num_inputs", "_pyverilator_inputs",
     "_pyverilator_input_widths", "_pyverilator_num_outputs", "_pyverilator_outputs",
     "_pyverilator_output_widths", "_pyverilator_num_internal_signals",
     "_pyverilator_internal_signals", "_pyverilator_internal_signal_widths",
     "_pyverilator_json_data", "main_time"}

\* template_cpp(top_module, inputs, outputs, internal_signals, json_data)
template_cpp(top_module, inputs, outputs, internal_signals) ==
    [module_filename |-> "V" \o top_module,
     variables |-> var_declaration_cpp,
     inputs |-> inputs, outputs |-> outputs, internal_signals |-> internal_signals,
     functions |-> constant_part,
     getters |-> get_functions(inputs, outputs, internal_signals),
     setters |-> set_functions(inputs)]

\* the names the generated text defines
Symbols(text) ==
    text.variables \cup {text.functions[i] : i \in 1..Len(text.functions)}
        \cup {text.getters[i].name : i \in 1..Len(text.getters)}
        \cup {text.setters[i].name : i \in 1..Len(text.setters)}

\* the names PyVerilator looks up in self.lib: in __init__, set_command_args
\* and _read_embedded_data, in the accessors, in eval, in the finish
\* property and callback, in the trace methods and in __del__
Resolved(inputs, outputs, internal_signals) ==
    {"construct", "set_command_args", "destruct", "eval",
     "get_finished", "set_finished", "set_vl_finish_callback",
     "start_vcd_trace", "add_to_vcd_trace", "flush_vcd_trace", "stop_vcd_trace",
     "_pyverilator_module_name", "_pyverilator_num_inputs", "_pyverilator_inputs",
     "_pyverilator_input_widths", "_pyverilator_num_outputs", "_pyverilator_outputs",
     "_pyverilator_output_widths", "_pyverilator_num_internal_signals",
     "_pyverilator_internal_signals", "_pyverilator_internal_signal_widths",
     "_pyverilator_json_data"}
        \cup {"get_" \o n : n \in Names(inputs) \cup Names(outputs) \cup Names(internal_signals)}
        \cup {"set_" \o n : n \in Names(inputs)}

\* a declaration of V<module>.h: VL_IN8(name,msb,lsb);
Decl(macro, name, msb, lsb) == [macro |-> macro, name |-> name, msb |-> msb, lsb |-> lsb]

\* search_for_signal_decl(signal_type, line): the regular expression takes
\* every macro that begins with VL_<signal_type>; a VL_SIG counts when its
\* name begins with the module name, has no '[' and its lsb is 0
search_for_signal_decl(signal_type, line, verilog_module_name) ==
    IF ~StartsWith(line.macro, "VL_" \o signal_type) THEN None
    ELSE IF signal_type = "SIG"
            /\ ~(/\ StartsWith(line.name, verilog_module_name)
                 /\ ~Contains(line.name, "[")
                 /\ line.lsb = 0)
    THEN None
    ELSE <<line.name, line.msb - line.lsb + 1>>

\* the loop over the lines of the header
Declared(signal_type, header, verilog_module_name) ==
    LET Hit(i) == search_for_signal_decl(signal_type, header[i], verilog_module_name)
        F[i \in 0..Len(header)] ==
            IF i = 0 THEN <<>>
            ELSE IF Hit(i) = None THEN F[i - 1] ELSE Append(F[i - 1], Hit(i))
    IN  F[Len(header)]

\* os.path.splitext(os.path.basename(top_verilog_file)) of a file name
\* without directories
LastDot(file) ==
    IF \E i \in 1..Len(file) : SubSeq(file, i, i) = "."
    THEN CHOOSE i \in 1..Len(file) :
            /\ SubSeq(file, i, i) = "."
            /\ \A j \in (i + 1)..Len(file) : SubSeq(file, j, j) # "."
    ELSE Len(file) + 1

splitext(file) ==
    <<SubSeq(file, 1, LastDot(file) - 1), SubSeq(file, LastDot(file), Len(file))>>

\* something build does outside the process
Effect(fn, what) == NativeCall(fn, what, None, <<>>, {})

\* (mutation) a process whose return code is not looked at
CallProcessUnchecked(b, program, quiet, returncode) ==
    Log(b, Effect(IF quiet THEN "subprocess.run" ELSE "subprocess.check_call", program))

\* call_process(args, quiet): both branches raise CalledProcessError on a
\* return code that is not 0
call_process(b, program, quiet, returncode) ==
    LET ran == Log(b, Effect(IF quiet THEN "subprocess.run" ELSE "subprocess.check_call",
                             program))
    IN  IF returncode # 0 THEN Raise(ran, "CalledProcessError") ELSE ran

\* no instance: the fields of an object that was not made
Absent ==
    [so_file |-> None, top |-> <<>>, io |-> NoIo, auto_eval |-> FALSE,
     vcd_filename |-> None, vcd_trace |-> NullPtr, auto_tracing_mode |-> None,
     curr_time |-> 0, gtkwave_active |-> FALSE, clock |-> None, tfps |-> <<>>,
     finished |-> FALSE, vl_finish_callback |-> NoCallback,
     _lib_vl_finish_callback |-> NoCallback, self |-> "sim_1",
     calls |-> <<>>, ret |-> {}, exc |-> None]

\* the attribute lib after del self.lib
Deleted == "<deleted>"

\* the statements of __init__ that call into the library or into the
\* helpers, with what each raises when it fails
InitSteps ==
    <<"ctypes.CDLL", "set_command_args", "construct", "_read_embedded_data",
      "_sim_init", "_populate_signal_collections", "clock">>

StepError(step) ==
    CASE step = "ctypes.CDLL" -> "OSError"
      [] step = "set_command_args" -> "AttributeError"
      [] step = "construct" -> "AttributeError"
      [] step = "_read_embedded_data" -> "ValueError"
      [] step = "_sim_init" -> "AttributeError"
      [] step = "_populate_signal_collections" -> "NotImplementedError"
      [] OTHER -> "ValueError"

StepIndex(step) == CHOOSE i \in 1..Len(InitSteps) : InitSteps[i] = step

\* PyVerilator(so_file) with the step that fails, if any: lib and model are
\* None until the library is loaded and the model constructed
Loaded(b, so, fails) ==
    LET made == IF fails = None THEN __init__(so, TRUE) ELSE Absent
        tried == Log(b, Effect("ctypes.CDLL", so))
        lib_ == IF fails = "ctypes.CDLL" THEN None ELSE so
        constructs == fails = None \/ StepIndex(fails) >= 3
        model_ == IF fails = None \/ StepIndex(fails) > 3 THEN ModelOf(so) ELSE None
    IN  [(IF constructs THEN Log(tried, Effect("construct", so)) ELSE tried)
            EXCEPT !.inst = made, !.lib = lib_, !.model = model_,
                   !.exc = IF fails = None THEN made.exc ELSE StepError(fails),
                   !.ret = IF fails = None /\ made.exc = None THEN {ModelOf(so)} ELSE {}]

\* (mutation) the compiler is taken to be where it usually is
WhichAssumed(e) == "/usr/bin/verilator"

\* shutil.which('verilator')
which_verilator(e) == e.which

\* build before anything is done
Unbuilt ==
    [calls |-> <<>>, exc |-> None, ret |-> {}, inst |-> Absent,
     lib |-> None, model |-> None]

\* PyVerilator.build(top_verilog_file, gen_only, quiet, command_args,
\* verilog_defines) in the surroundings e: whether build_dir exists, what
\* shutil.which finds, the return codes of verilator and make, the header
\* verilator writes and the step of the constructor that fails
build(a, e) ==
    LET verilog_module_name == splitext(a.top_verilog_file)[1]
        extension == splitext(a.top_verilog_file)[2]
        dir == IF e.exists THEN Unbuilt ELSE Log(Unbuilt, Effect("os.makedirs", "obj_dir"))
        found == Log(dir, Effect("shutil.which", "verilator"))
        compiled == call_process(found, "perl", FALSE, e.verilator)
        inputs == Declared("IN", e.header, verilog_module_name)
        outputs == Declared("OUT", e.header, verilog_module_name)
        internal_signals == Declared("SIG", e.header, verilog_module_name)
        written_ == Log(compiled,
                        [Effect("write", "pyverilator_wrapper.cpp") EXCEPT
                            !.args = <<template_cpp(verilog_module_name, inputs, outputs,
                                                    internal_signals)>>])
        made == call_process(written_, "make", a.quiet, e.make)
    IN  IF a.verilog_defines = "str" THEN Raise(Unbuilt, "TypeError")
        ELSE IF a.command_args = "str" THEN Raise(Unbuilt, "TypeError")
        ELSE IF extension # ".v" THEN Raise(Unbuilt, "ValueError")
        ELSE IF which_verilator(e) = None THEN Raise(found, "Exception")
        ELSE IF compiled.exc # None THEN compiled
        ELSE IF a.gen_only THEN written_
        ELSE IF made.exc # None THEN made
        ELSE Loaded(made, verilog_module_name, e.fails)

\* PyVerilator.__del__
__del__(d) ==
    LET destructed ==
            IF d.model = None THEN d
            ELSE IF d.lib = Deleted THEN Raise(d, "AttributeError")
            ELSE [Log(d, [Effect("destruct", None) EXCEPT !.args = <<d.model>>])
                    EXCEPT !.released = @ + 1]
    IN  IF destructed.exc # None THEN destructed
        ELSE IF destructed.lib = Deleted THEN Raise(destructed, "AttributeError")
        ELSE IF destructed.lib # None THEN [destructed EXCEPT !.lib = Deleted]
        ELSE destructed

\* the declarations verilator writes for finish_tester; those of a module
\* with the ranges [0:1] and [0:3], whose msb - lsb + 1 is 0 and -2; and a
\* header that declares a name twice
Headers(verilog_module_name) ==
    {<<Decl("VL_IN8", "clk", 0, 0), Decl("VL_IN8", "rst", 0, 0),
       Decl("VL_IN8", "do_finish", 0, 0)>>,
     <<Decl("VL_IN8", "clk", 0, 0), Decl("VL_IN8", "a", 0, 1),
       Decl("VL_OUT8", "b", 0, 3),
       Decl("VL_SIG8", verilog_module_name \o "__DOT__r", 7, 0),
       Decl("VL_SIG8", verilog_module_name \o "__DOT__m[3]", 7, 0)>>,
     <<Decl("VL_IN8", "clk", 0, 0), Decl("VL_INOUT8", "clk", 0, 0),
       Decl("VL_OUT8", "q", 0, 0), Decl("VL_OUT8", "q", 0, 0)>>}

\* a descriptor list with a width that is not positive or a name twice
Malformed(list) ==
    \/ \E i \in 1..Len(list) : list[i][2] <= 0
    \/ \E i, j \in 1..Len(list) : i # j /\ list[i][1] = list[j][1]

WellFormed(header, verilog_module_name) ==
    \A signal_type \in {"IN", "OUT", "SIG"} :
        ~Malformed(Declared(signal_type, header, verilog_module_name))

TopVerilogFiles == {"finish_tester.v", "finish_tester.sv"}

BuildArgs ==
    [top_verilog_file : TopVerilogFiles, gen_only : BOOLEAN, quiet : BOOLEAN,
     command_args : {"tuple", "str"}, verilog_defines : {"tuple", "str"}]

\* the surroundings of a build; a header the generator should refuse is
\* tried with gen_only, which stops once the wrapper is written
BuildEnvs(a) ==
    {e \in [exists : BOOLEAN, which : {None, "/usr/bin/verilator"},
            verilator : {0, 1}, make : {0, 1},
            header : Headers(splitext(a.top_verilog_file)[1]),
            fails : {None} \cup {InitSteps[i] : i \in 1..Len(InitSteps)}] :
        WellFormed(e.header, splitext(a.top_verilog_file)[1]) \/ a.gen_only}

BuildOperation(a, e) ==
    [kind |-> "build", name |-> a.top_verilog_file, value |-> {}, port |-> None,
     flag |-> a.gen_only, args |-> a, env |-> e]

\* the operation ends: the object it made or destroyed, if any, is b
Installed(b, o) ==
    /\ so_file' = b.inst.so_file
    /\ top' = b.inst.top
    /\ io' = b.inst.io
    /\ auto_eval' = b.inst.auto_eval
    /\ vcd_filename' = b.inst.vcd_filename
    /\ vcd_trace' = b.inst.vcd_trace
    /\ auto_tracing_mode' = b.inst.auto_tracing_mode
    /\ curr_time' = b.inst.curr_time
    /\ gtkwave_active' = b.inst.gtkwave_active
    /\ clock' = b.inst.clock
    /\ tfps' = b.inst.tfps
    /\ finished' = b.inst.finished
    /\ vl_finish_callback' = b.inst.vl_finish_callback
    /\ _lib_vl_finish_callback' = b.inst._lib_vl_finish_callback
    /\ calls' = b.calls \o b.inst.calls
    /\ ret' = b.ret
    /\ exc' = b.exc
    /\ op' = o
    /\ written' = IF b.inst.so_file = None THEN <<>>
                  ELSE [n \in Names(Inputs(b.inst.so_file)) |-> {}]
    /\ fed' = IF b.inst.so_file = None THEN <<>>
              ELSE [k \in 1..Stages(b.inst.so_file) |-> {}]
    /\ lib' = b.lib
    /\ model' = b.model
    /\ UNCHANGED <<stale, decoding, registered, peer, released, internals>>

\* PyVerilator.build(...)
Build ==
    /\ op.kind = "none"
    /\ \E a \in BuildArgs : \E e \in BuildEnvs(a) :
            \E b \in {build(a, e)} : Installed(b, BuildOperation(a, e))

\* PyVerilator(so_file) on an artifact built before
Construct ==
    /\ op.kind = "none"
    /\ \E so \in FinishDesigns :
       \E fails \in {None} \cup {InitSteps[i] : i \in 1..Len(InitSteps)} :
            \E b \in {Loaded(Unbuilt, so, fails)} :
                Installed(b, [Operation("__init__", so, {}, None, TRUE)
                                EXCEPT !.port = fails])

\* an object was made, whether or not its constructor returned
Made ==
    \/ op.kind \in {"__init__", "__del__"}
    \/ op.kind = "build" /\ \E i \in 1..Len(calls) : calls[i].fn = "ctypes.CDLL"

\* sim.__del__(), by the caller or by the collector
Del ==
    /\ Made
    /\ \E d \in {__del__([lib |-> lib, model |-> model, released |-> released,
                          calls |-> <<>>, exc |-> None])} :
            /\ lib' = d.lib
            /\ model' = d.model
            /\ released' = d.released
            /\ calls' = d.calls
            /\ exc' = d.exc
            /\ ret' = {}
            /\ op' = Operation("__del__", None, {}, None, FALSE)
            /\ UNCHANGED <<so_file, top, io, auto_eval, vcd_filename, vcd_trace,
                           auto_tracing_mode, curr_time, gtkwave_active, clock,
                           tfps, written, stale, fed, decoding, finished,
                           vl_finish_callback, _lib_vl_finish_callback,
                           registered, peer, internals>>

\* the names a designer gives modules and signals: letters, '_', digits and
\* characters verilator has to escape
PlainChars == {"a", "_", "7", "$"}

RECURSIVE NamesOfLength(_)
NamesOfLength(n) ==
    IF n = 0 THEN {""}
    ELSE {s \o c : s \in NamesOfLength(n - 1), c \in PlainChars}

PlainNames == UNION {NamesOfLength(n) : n \in 1..MaxChars}

\* a port of the top module, a signal of the top module and a signal of a
\* module instantiated in it
SubModules == {"sub", "_$", "u_"}
SourcePaths ==
    {<<n>> : n \in PlainNames}
        \cup {<<"top", n>> : n \in PlainNames}
        \cup {<<"top", u, n>> : u \in SubModules, n \in PlainNames}

\* the two markers verilator writes for '[' and ']'
Markers == {"__BRA__", "__KET__"}
Places == {"front", "middle", "back"}

\* the name with a marker in it
Marked(name, marker, place) ==
    CASE place = "front" -> marker \o name
      [] place = "back" -> name \o marker
      [] OTHER -> SubSeq(name, 1, Len(name) \div 2) \o marker
                  \o SubSeq(name, (Len(name) \div 2) + 1, Len(name))

\* no instance is involved in a call of the decoder
NoInstance ==
    /\ so_file = None /\ top = <<>> /\ io = NoIo /\ auto_eval = FALSE
    /\ vcd_filename = None /\ vcd_trace = NullPtr /\ auto_tracing_mode = None
    /\ curr_time = 0 /\ gtkwave_active = FALSE /\ clock = None /\ tfps = <<>>
    /\ calls = <<>> /\ ret = {} /\ exc = None
    /\ written = <<>> /\ stale = FALSE /\ fed = <<>>
    /\ finished = FALSE
    /\ vl_finish_callback = NoCallback /\ _lib_vl_finish_callback = NoCallback
    /\ registered = <<>>
    /\ peer = NoPeer
    /\ lib = None /\ model = None /\ released = 0
    /\ internals = Internals(<<>>)

InitDecode ==
    /\ NoInstance
    /\ op = Operation("decode", None, {}, None, FALSE)
    /\ \E source \in SourcePaths :
            \/ decoding = Decoding(source, "", "front", Flatten(source))
            \/ \E marker \in Markers : \E place \in Places :
                    decoding = Decoding(source, marker, place,
                                        Marked(Flatten(source), marker, place))

\* verilator_name_to_standard_modular_name(verilator_name)
DecodeName ==
    /\ ~decoding.called
    /\ \E r \in {verilator_name_to_standard_modular_name(decoding.verilator_name)} :
            decoding' = [decoding EXCEPT !.called = TRUE, !.exc = r.exc, !.path = r.path]
    /\ UNCHANGED <<so_file, top, io, auto_eval, vcd_filename, vcd_trace,
                   auto_tracing_mode, curr_time, gtkwave_active, clock, tfps,
                   calls, ret, exc, op, written, stale, fed,
                   finished, vl_finish_callback, _lib_vl_finish_callback,
                   registered, peer, lib, model, released, internals>>

NextDecode == DecodeName

SpecDecode == InitDecode /\ [][NextDecode]_vars

\* nothing built or loaded yet
InitBuild ==
    /\ NoInstance
    /\ op = Operation("none", None, {}, None, FALSE)
    /\ decoding = NotDecoding

NextBuild ==
    \/ Build
    \/ Construct
    \/ Del

SpecBuild == InitBuild /\ [][NextBuild]_vars

\* the internal signals verilator may expose for a module m: registers of
\* m, of its instance sub, a register named like the module, and names
\* with an escaped and a plain underscore
InternalNames ==
    {"m", "m__DOT__m", "m__DOT__r", "m__DOT__sub", "m__DOT__sub__DOT__x",
     "m__DOT__sub__DOT__y", "m__DOT__a_b", "m__DOT__a__05Fb", "m__DOT__v__BRA__0__KET__"}

\* the descriptor lists of up to MaxInternals of these names, each once
RECURSIVE InternalLists(_)
InternalLists(n) ==
    IF n = 0 THEN {<<>>}
    ELSE InternalLists(n - 1)
            \cup {Append(l, <<name, 8>>) : l \in {k \in InternalLists(n - 1) : Len(k) = n - 1},
                                         name \in InternalNames}

\* _populate_signal_collections on a list of internal signals
PopulateInternals ==
    /\ op.kind = "none"
    /\ \E list \in {l \in InternalLists(MaxInternals) :
                        \A i, j \in 1..Len(l) : i # j => l[i][1] # l[j][1]} :
            /\ internals' = Internals(list)
            /\ exc' = Internals(list).exc
            /\ op' = [Operation("_populate_signal_collections", None, {}, None, FALSE)
                        EXCEPT !.name = list]
            /\ UNCHANGED <<so_file, top, io, auto_eval, vcd_filename, vcd_trace,
                           auto_tracing_mode, curr_time, gtkwave_active, clock,
                           tfps, calls, ret, written, stale, fed, decoding, finished,
                           vl_finish_callback, _lib_vl_finish_callback,
                           registered, peer, lib, model, released>>

NextNested == PopulateInternals

SpecNested == InitBuild /\ [][NextNested]_vars

(***************************************************************************)
(* Properties.  calls holds the native calls of the operation that led to *)
(* the state, in order; op names that operation.                           *)
(***************************************************************************)
TraceFns == {"start_vcd_trace", "add_to_vcd_trace", "flush_vcd_trace", "stop_vcd_trace"}

\* ceil(width / 32)
CeilWords(width) == CHOOSE n \in 1..8 : 32 * (n - 1) < width /\ width <= 32 * n

\* the number of setter calls one write of a signal of this width makes
SetterCalls(width) == IF width > 64 THEN CeilWords(width) ELSE 1

\* the positions of the calls of fn in the log of the last operation
Positions(fn) == {i \in 1..Len(calls) : calls[i].fn = fn}

\* the last operation was a write that returned normally
WriteDone == op.kind = "write" /\ exc = None

\* C1: with auto_eval on, a successful write (sim[name] = v, sim.io[name] = v,
\* sim.io.name = v, Input.write) first makes all the setter calls of the
\* write (ceil(width/32) in the multi-word tier, one otherwise), then calls
\* the native eval exactly once, and calls nothing but trace functions after
\* it; the model it returns is evaluated, so the straight-through output
\* already holds the value written.
C1_EvalOnceAfterSetters ==
    (WriteDone /\ auto_eval) =>
        /\ Positions("set") = 1..SetterCalls(WidthOf(so_file, op.port))
        /\ \A i \in Positions("set") : calls[i].port = op.port
        /\ Positions("eval") = {SetterCalls(WidthOf(so_file, op.port)) + 1}
        /\ \A i \in 1..Len(calls) : calls[i].fn \in {"set", "eval"} \cup TraceFns
        /\ ~stale
        /\ so_file \in PassDesigns => top["a_out"] = op.value

\* a multi-word write with auto_eval on that also appended to a trace
C1_Witness ==
    /\ WriteDone /\ auto_eval
    /\ so_file = "passthrough_65"
    /\ op.value = {64}
    /\ Len(calls) = 7
    /\ calls[4].fn = "eval"
    /\ calls[7].fn = "flush_vcd_trace"
    /\ top["a_out"] = {64}

\* the last operation read the straight-through output of a passthrough design
ReadBack == so_file \in PassDesigns /\ op.kind = "read" /\ op.port = "a_out" /\ exc = None

\* C2 (as stated): for every width in {1, 8, 32, 33, 64, 65, 128, 248} and
\* every value V below 2^width, a read of the straight-through output that
\* follows a write of V to the input returns V.
C2_RoundTripAlways == ReadBack => ret = written["a"]

\* C2 (amended): the same round trip once the model has been evaluated after
\* the write, by the automatic evaluation of the write or by eval().
C2_RoundTripEvaluated == (ReadBack /\ ~stale) => ret = written["a"]

\* the widest design returned all 248 one bits
C2_Witness ==
    /\ ReadBack /\ ~stale
    /\ so_file = "passthrough_248"
    /\ written["a"] = 0..247
    /\ ret = 0..247

\* the tier by the width alone, as the claim words it
TierOf(width) == IF width <= 32 THEN "w32" ELSE IF width <= 64 THEN "w64" ELSE "words"

\* the accessor calls of the last operation, in order
AccessorCalls == SelectSeq(calls, LAMBDA c : c.fn \in {"get", "set"})

\* C3: for every width the handle layer (Signal.__init__, Input.__init__) picks
\* the tier the glue code emitted the accessor for: one 32-bit word up to 32
\* bits, one 64-bit word up to 64, indexed 32-bit words above; and every
\* accessor call the facade makes (through _read, _write or a handle) is made
\* with the signature of the tier emitted for that signal, the indexed
\* accessor for the indices 0..ceil(width/32)-1 in turn.
C3_TiersAgree ==
    /\ \A w \in 1..MaxWidth :
            /\ SignalTier(w) = GlueGetTier(w)
            /\ InputTier(w) = GlueSetTier(w)
            /\ GlueGetTier(w) = TierOf(w)
            /\ GlueSetTier(w) = TierOf(w)
            /\ w > 64 => NumWords(w) = CeilWords(w)
    /\ \A i \in 1..Len(AccessorCalls) :
            /\ AccessorCalls[i].abi = TierOf(WidthOf(so_file, AccessorCalls[i].port))
            /\ AccessorCalls[i].abi = "words" => AccessorCalls[i].args[1] = FromNat(i - 1)
    /\ (op.kind \in {"read", "write"} /\ exc = None) =>
            Len(AccessorCalls) = SetterCalls(WidthOf(so_file, op.port))

\* a read of a 65-bit signal through three indexed getter calls
C3_Witness ==
    /\ so_file = "passthrough_65"
    /\ op.kind = "read" /\ exc = None
    /\ Len(calls) = 3
    /\ \A i \in 1..3 : calls[i].fn = "get" /\ calls[i].abi = "words"
    /\ calls[3].args = <<{1}>>

\* word i of the bit set v, and a word put back at its place
WordAt(v, i) == {b \in 0..31 : b + 32 * i \in v}
Placed(word, i) == {b + 32 * i : b \in word}

\* the last operation read or wrote a signal of the multi-word tier
MultiWord(kind) ==
    op.kind = kind /\ exc = None /\ WidthOf(so_file, op.port) > 64

\* the concatenation {input_a, input_b, input_c, input_d, input_e}
Concat(w) ==
    w["input_e"] \cup Placed(w["input_d"], 4) \cup Placed(w["input_c"], 6)
    \cup {b + 224 : b \in w["input_b"]} \cup {b + 240 : b \in w["input_a"]}

\* the two rules of the multi-word tier: a read calls the indexed getter for
\* 0..n-1 and returns the sum of word[i] * 2^(32 i); a write of V calls the
\* indexed setter for 0..n-1 in ascending order with floor(V / 2^(32 i)) mod 2^32
WordRules ==
    /\ MultiWord("read") =>
            /\ Len(calls) = CeilWords(WidthOf(so_file, op.port))
            /\ \A i \in 1..Len(calls) :
                    /\ calls[i].fn = "get"
                    /\ calls[i].args = <<FromNat(i - 1)>>
                    /\ calls[i].res = WordAt(top[op.port], i - 1)
            /\ ret = UNION {Placed(calls[i].res, i - 1) : i \in 1..Len(calls)}
    /\ MultiWord("write") =>
            /\ Positions("set") = 1..CeilWords(WidthOf(so_file, op.port))
            /\ \A i \in Positions("set") :
                    calls[i].args = <<FromNat(i - 1), WordAt(op.value, i - 1)>>

\* the last operation read the 248-bit output of the concatenating design
ReadConcat ==
    so_file = "width_test" /\ op.kind = "read" /\ op.port = "output_concat" /\ exc = None

\* C4 (as stated): the two rules of the multi-word tier, and hence a read of
\* the 248-bit output returns the concatenation of the values written to the
\* inputs of widths 8/16/32/64/128.
C4_WordsAlways == WordRules /\ (ReadConcat => ret = Concat(written))

\* C4 (amended): the two rules, and the read returns the concatenation once
\* the model has been evaluated after the writes.
C4_WordsEvaluated == WordRules /\ ((ReadConcat /\ ~stale) => ret = Concat(written))

\* the five seed values of the test read back as one 248-bit value
C4_Witness ==
    /\ ReadConcat /\ ~stale
    /\ Len(calls) = 8
    /\ written["input_a"] = FromHex(<<10, 10>>)
    /\ written["input_e"] = FromHex(<<15>> \o Rep(14, 31))
    /\ ret = FromHex(<<10, 10, 1, 11, 11, 11, 3>> \o Rep(12, 7) \o <<7>> \o Rep(13, 15)
                      \o <<15>> \o Rep(14, 31))

\* the fields of the trace session and the native trace objects
TraceState == <<vcd_trace, vcd_filename, auto_tracing_mode, curr_time, tfps>>

\* the native trace objects that are open
OpenHandles == {h \in 1..Len(tfps) : tfps[h].open}

\* C5: start_vcd_trace called while a trace is active raises, makes no native
\* call and leaves the handle, the filename, the auto-tracing mode, the
\* timestamp and the native trace object as they were, the object still open.
C5_StartWhileActive ==
    [][(vcd_trace # NullPtr /\ op'.kind = "start_vcd_trace") =>
            /\ exc' = "ValueError"
            /\ calls' = <<>>
            /\ UNCHANGED TraceState
            /\ tfps'[vcd_trace'].open]_vars

\* a second start refused in the middle of a session
C5_Witness ==
    /\ op.kind = "start_vcd_trace" /\ exc = "ValueError"
    /\ vcd_trace = 1 /\ vcd_filename = "test.vcd"
    /\ op.name = default_vcd_filename
    /\ curr_time = 20
    /\ tfps[1].open

\* C6: stop_vcd_trace with no trace active raises and makes no native call;
\* with a trace active it closes the native handle and clears the handle, the
\* filename and the auto-tracing mode; and with no trace active no write and
\* no eval appends a sample.
C6_StopAndNoTrace ==
    [][/\ (vcd_trace = NullPtr /\ op'.kind = "stop_vcd_trace") =>
            /\ exc' = "ValueError"
            /\ calls' = <<>>
            /\ UNCHANGED TraceState
       /\ (vcd_trace # NullPtr /\ op'.kind = "stop_vcd_trace") =>
            /\ exc' = None
            /\ calls' = <<TraceCall("stop_vcd_trace", vcd_trace, 0)>>
            /\ ~tfps'[vcd_trace].open
            /\ vcd_trace' = NullPtr
            /\ vcd_filename' = None
            /\ auto_tracing_mode' = None
       /\ (vcd_trace = NullPtr /\ op'.kind \in {"write", "eval"}) =>
            /\ \A i \in 1..Len(calls') : calls'[i].fn \notin TraceFns
            /\ UNCHANGED TraceState]_vars

\* a write to the clock after a session was stopped: evaluated, not traced
C6_Witness ==
    /\ WriteDone /\ auto_eval
    /\ clock # None /\ op.port = clock
    /\ vcd_trace = NullPtr /\ vcd_filename = None /\ auto_tracing_mode = None
    /\ Len(tfps) = 1 /\ ~tfps[1].open
    /\ Len(calls) = 2

\* the last operation was one that appends in the session's auto-tracing
\* mode: a write to the clock when one is bound, an eval or an evaluating
\* write when none is
SyncOperation ==
    /\ exc = None
    /\ \/ auto_tracing_mode = "clock" /\ op.kind = "write" /\ op.port = clock
       \/ auto_tracing_mode = "eval" /\ op.kind = "eval"
       \/ auto_tracing_mode = "eval" /\ op.kind = "write" /\ auto_eval

\* the last operation appended: two samples ending at the current timestamp
Appended ==
    /\ Cardinality(Positions("add_to_vcd_trace")) = 2
    /\ Len(tfps[vcd_trace].dumps) >= 2
    /\ tfps[vcd_trace].dumps[Len(tfps[vcd_trace].dumps)] = curr_time
    /\ tfps[vcd_trace].dumps[Len(tfps[vcd_trace].dumps) - 1] = curr_time - 5

\* C7: a start_vcd_trace that follows a stopped session leaves the instance
\* tracing on the filename given, on a native handle no earlier session had
\* and with every earlier handle closed; the timestamp restarts, so the first
\* two samples of the session carry 5 and 10; and the writes to the
\* synchronizing signal (the evals, when no clock is bound) append again.
C7_Restart ==
    (Len(tfps) >= 2 /\ vcd_trace # NullPtr) =>
        /\ vcd_trace = Len(tfps)
        /\ OpenHandles = {vcd_trace}
        /\ SubSeq(tfps[vcd_trace].dumps, 1, 2) = <<5, 10>>
        /\ (op.kind = "start_vcd_trace" /\ exc = None) =>
                /\ vcd_filename = op.name
                /\ curr_time = 10
                /\ tfps[vcd_trace].dumps = <<5, 10>>
        /\ SyncOperation => Appended

\* the second session, on the default filename, after one write to the clock
C7_Witness ==
    /\ Len(tfps) = 2 /\ vcd_trace = 2
    /\ vcd_filename = default_vcd_filename
    /\ WriteDone /\ op.port = clock
    /\ tfps[2].dumps = <<5, 10, 15, 20>>

\* C8: at most one native trace object opened by start_vcd_trace, the one
\* start_gtkwave opens included, has not been closed by stop_vcd_trace.
C8_OneOpenHandle ==
    /\ Cardinality(OpenHandles) <= 1
    /\ OpenHandles = IF vcd_trace = NullPtr THEN {} ELSE {vcd_trace}

\* the viewer opened the second session after the first was closed
C8_Witness ==
    /\ op.kind = "start_gtkwave" /\ exc = None
    /\ gtkwave_active
    /\ Len(tfps) = 2
    /\ OpenHandles = {2}
    /\ vcd_filename = default_vcd_filename

\* C9: the timestamps the native add_to_vcd_trace receives in one session are
\* 5, 10, 15, ...: strictly increasing, two per append; an operation that
\* appends makes the two calls at curr_time + 5 and curr_time + 10 and then
\* exactly one flush; so the timestamp after k appends is 10 k.
C9_Timestamps ==
    /\ vcd_trace # NullPtr =>
            /\ \A i \in 1..Len(tfps[vcd_trace].dumps) : tfps[vcd_trace].dumps[i] = 5 * i
            /\ Len(tfps[vcd_trace].dumps) % 2 = 0
            /\ curr_time = 10 * (Len(tfps[vcd_trace].dumps) \div 2)
    /\ Positions("add_to_vcd_trace") # {} =>
            \E i \in 1..Len(calls) :
                /\ Positions("add_to_vcd_trace") = {i, i + 1}
                /\ Positions("flush_vcd_trace") = {i + 2}
                /\ calls[i].time = curr_time - 5
                /\ calls[i + 1].time = curr_time
                /\ Len(calls) = i + 2

\* the second append of a session, asked for by the caller
C9_Witness ==
    /\ op.kind = "add_to_vcd_trace" /\ exc = None
    /\ curr_time = 20
    /\ tfps[vcd_trace].dumps = <<5, 10, 15, 20>>
    /\ Len(calls) = 3

\* the last operation made the native add_to_vcd_trace calls
Sampled == Positions("add_to_vcd_trace") # {}

\* C10 (as stated): while tracing with automatic tracing on, with a clock
\* bound a write appends if and only if it triggered an automatic evaluation
\* and its target is the clock, and an explicit eval appends nothing; with no
\* clock bound every eval call, automatic or explicit, appends.
C10_AppendIffEvaluatedClockWrite ==
    /\ (auto_tracing_mode # None /\ clock # None /\ WriteDone) =>
            (Sampled <=> (Positions("eval") # {} /\ op.port = clock))
    /\ (auto_tracing_mode # None /\ clock # None /\ op.kind = "eval") => ~Sampled
    /\ (auto_tracing_mode # None /\ clock = None /\ op.kind \in {"write", "eval"}
            /\ exc = None) =>
            (Sampled <=> Positions("eval") # {})

\* the last operation was a tick that returned normally
TickDone == op.kind = "tick" /\ exc = None

\* the native calls of the last operation that are not trace calls
ModelCalls == SelectSeq(calls, LAMBDA c : c.fn \notin TraceFns)

\* a setter call on the one-bit clock, and an eval call
ClockSet(v) == NativeCall("set", clock, "w32", <<v>>, {})
EvalCall == NativeCall("eval", None, None, <<>>, {})

\* write(0) and then write(1): two setter calls, each followed by an eval when
\* auto_eval is on
TickCalls ==
    IF auto_eval THEN <<ClockSet({}), EvalCall, ClockSet({0}), EvalCall>>
    ELSE <<ClockSet({}), ClockSet({0})>>

\* the output of the register chain
ChainOutput == Outputs(so_file)[1][1]

\* C11 (as stated): a tick writes 0 and then 1 to the bound clock (two setter
\* calls, two evals with auto_eval on) and presents one rising edge, so that
\* after every tick the output of an N-stage register chain shows the data
\* that stood at its inputs N rising edges earlier, and 0 before N edges.
C11_TickAdvancesAlways ==
    TickDone =>
        /\ ModelCalls = TickCalls
        /\ top[ChainOutput] = fed[Stages(so_file)]

\* C11 (amended): the calls of a tick as stated; and on an instance with
\* auto_eval on every tick (and every write of 1 over 0 to the clock) moves the
\* chain by exactly one stage: the registers hold the data of the last N
\* edges in order, the output and a read of it show the data of N edges ago.
C11_TickAdvances ==
    /\ TickDone => ModelCalls = TickCalls
    /\ auto_eval =>
            /\ top["internal_concat_1"] = fed[1]
            /\ top["internal_concat_2"] = fed[2]
            /\ top[ChainOutput] = fed[Stages(so_file)]
            /\ (op.kind = "read" /\ op.port = ChainOutput /\ exc = None) =>
                    ret = fed[Stages(so_file)]

\* the second tick after 0xaa was applied and taken away again: the value
\* has reached the output, the first stage already holds the 0 behind it
C11_Witness ==
    /\ TickDone /\ auto_eval
    /\ Len(calls) = 4
    /\ fed = <<{}, Shl(FromHex(<<10, 10>>), 240)>>
    /\ top["internal_concat_1"] = {}
    /\ top["output_concat"] = Shl(FromHex(<<10, 10>>), 240)

\* a name that, ignoring case, equals (pass 1), starts with (pass 2) or ends
\* with (pass 3) one of the tokens clock and clk
NamesClock(name, pass) ==
    CASE pass = 1 -> Lower(name) \in {"clock", "clk"}
      [] pass = 2 -> StartsWith(Lower(name), "clock") \/ StartsWith(Lower(name), "clk")
      [] OTHER -> EndsWith(Lower(name), "clock") \/ EndsWith(Lower(name), "clk")

\* the entry is a single-bit input with such a name
Qualifies(key, pass) ==
    /\ io.dict[key].cls = "Input"
    /\ io.dict[key].width = 1
    /\ NamesClock(key, pass)

\* the first entry in scan order that qualifies in the pass, or None
FirstQualifying(pass) ==
    IF \E i \in 1..Len(io.keys) : Qualifies(io.keys[i], pass)
    THEN io.keys[CHOOSE i \in 1..Len(io.keys) :
                    /\ Qualifies(io.keys[i], pass)
                    /\ \A j \in 1..(i - 1) : ~Qualifies(io.keys[j], pass)]
    ELSE None

\* the entry the three passes settle on
ClaimedClock ==
    IF FirstQualifying(1) # None THEN FirstQualifying(1)
    ELSE IF FirstQualifying(2) # None THEN FirstQualifying(2)
    ELSE FirstQualifying(3)

\* C12: construction succeeds and binds the clock to the first single-bit
\* input, in scan order, whose short name ignoring case equals clock or clk,
\* failing that to the first that starts with one of them, failing that to
\* the first that ends with one; with no such entry no clock is bound.
C12_ClockDetected ==
    /\ op.kind = "__init__" => exc = None
    /\ clock = PortOfKey(ClaimedClock)

\* the names that exist only as outputs: in the descriptor lists, and as keys
OutputNames == Names(Outputs(so_file)) \ Names(Inputs(so_file))
OutputKeys == {k \in DOMAIN io.dict : io.dict[k].cls = "Output"}

\* the operation raised, called nothing native and left the model alone
Refused(r) == r.exc # None /\ r.calls = <<>> /\ r.top = top

\* both writes are refused, and with errors that differ
Distinguished(r, u) == Refused(r) /\ Refused(u) /\ r.exc # u.exc

RefusedWith(r, u, e) == Refused(r) /\ Refused(u) /\ r.exc = e /\ u.exc = e

InstanceState ==
    <<so_file, top, io, auto_eval, vcd_filename, vcd_trace, auto_tracing_mode,
      curr_time, gtkwave_active, clock, tfps>>

\* C14: a read or a write of a name that is in no descriptor list, through
\* sim[name], sim.io[name] or sim.io.name, raises, makes no native call and
\* changes no field of the instance, no signal of the model and no trace
\* object, so what follows runs from the state the failed call found.
C14_UnknownNameRefused ==
    [][(op'.kind \in {"read", "write"} /\ op'.name = Unknown) =>
            /\ exc' # None
            /\ calls' = <<>>
            /\ UNCHANGED InstanceState
            /\ UNCHANGED <<written, stale, fed>>]_vars

\* a write to an unknown name refused in the middle of a trace session
C14_Witness ==
    /\ op.kind = "write" /\ op.name = Unknown
    /\ exc = "ValueError"
    /\ calls = <<>>
    /\ vcd_trace = 1 /\ curr_time = 20
    /\ tfps[1].dumps = <<5, 10, 15, 20>>

\* the call reached the signal raw through the accessor fn, and raised nothing
Reached(r, fn, raw) ==
    /\ r.exc = None
    /\ Len(r.calls) > 0
    /\ r.calls[1].fn = fn /\ r.calls[1].port = raw

\* the keys that are keywords, and the keys that are fields of the Collection
KeywordKeys == DOMAIN io.dict \cap PyKeywords
StructuralKeys == DOMAIN io.dict \cap {"_item_dict", "_item_dict_keys"}

\* the key an attribute k_ stands for: k_ itself when there is such a key
Escaped(k) == IF (k \o "_") \in DOMAIN io.dict THEN k \o "_" ELSE k

\* the last operation named the keyword key k, or k_, and went through
LastOn(k) ==
    /\ op.kind \in {"read", "write"}
    /\ op.name \in {k, k \o "_"}

\* C15: in every state of an instance whose io Collection has a keyword key k
\* (here 'in'): c[k] reads and writes the signal k; c.k_ reads and writes the
\* signal k when there is no key k_, and the signal k_ when there is one; the
\* keys _item_dict and _item_dict_keys are read and written by index; and a
\* value written under either spelling is the one read back under the other.
C15_KeywordKeys ==
    Exists =>
        /\ \A k \in KeywordKeys \cup StructuralKeys :
                /\ Reached(Collection__getitem__(Self, k), "get", k)
                /\ Reached(Collection__setitem__(Self, k, {0}), "set", k)
        /\ \A k \in KeywordKeys :
                /\ Reached(Collection__getattr__(Self, k \o "_"), "get", Escaped(k))
                /\ Reached(Collection__setattr__(Self, k \o "_", {0}), "set", Escaped(k))
                /\ LastOn(k) =>
                        /\ exc = None
                        /\ op.port = (IF op.name \in DOMAIN io.dict THEN op.name ELSE k)
                        /\ calls[1].port = op.port
                        /\ op.kind = "write" => top[op.port] = op.value
                        /\ op.kind = "read" => ret = written[op.port]

\* the 8-bit input 'in' written 7 through the attribute in_ of a Collection
\* that has no key in_
C15_Witness ==
    /\ so_file = "keyword_test"
    /\ op.kind = "write" /\ op.name = "in_" /\ op.port = "in"
    /\ "in_" \notin DOMAIN io.dict
    /\ exc = None
    /\ top["in"] = {0, 1, 2}

\* the name given to the decoder has an array marker somewhere in it
HasMarker ==
    \/ Contains(decoding.verilator_name, "__BRA__")
    \/ Contains(decoding.verilator_name, "__KET__")

\* C16: once the decoder has been called on a name that contains '__BRA__'
\* or '__KET__' anywhere (in front, in the middle of a segment or of an
\* escape, at the back, in the top-level segment or below), it has raised
\* NotImplementedError and returned no path.
C16_MarkerRefused ==
    (decoding.called /\ HasMarker) =>
        /\ decoding.exc = "NotImplementedError"
        /\ decoding.path = <<>>

\* the name of $7 with '__BRA__' in the middle of the escape of '$', where
\* the inner loop of the decoder would find no hexadecimal digits: refused
\* as unsupported
C16_Witness ==
    /\ decoding.called
    /\ decoding.source = <<"$7">>
    /\ decoding.verilator_name = "__0__BRA__247"
    /\ decoding.exc = "NotImplementedError"
    /\ decoding.path = <<>>

\* the decoder was called on a name of the escape grammar: the encoded
\* segments of a hierarchical name joined by '__DOT__', no array marker
Grammatical == decoding.called /\ decoding.marker = ""

\* the path returned, escaped and joined again
Rejoined == Flatten(decoding.path)

\* C17 (as stated): for a name of the escape grammar the decoder raises
\* nothing and the path it returns, escaped and joined again, is the name it
\* was given.
C17_RoundTripExact ==
    Grammatical =>
        /\ decoding.exc = None
        /\ Rejoined = decoding.verilator_name

\* what is left of a hierarchical name, or of the name verilator exposes for
\* it, without its first segment
Below(path) == SubSeq(path, 2, Len(path))
BelowTop(name) == SubSeq(name, Find(name, "__DOT__") + Len("__DOT__"), Len(name))

\* C17 (amended): for a name of the escape grammar the decoder raises
\* nothing; for a name of one segment it returns the segment as the designer
\* wrote it, and escaping it again gives the name exactly; for a name of
\* several segments it returns the segments after the first as the designer
\* wrote them, and escaping and joining them again gives the name without
\* its first segment and the separator after it.
C17_RoundTrip ==
    Grammatical =>
        /\ decoding.exc = None
        /\ Len(decoding.source) = 1 =>
                /\ decoding.path = decoding.source
                /\ Rejoined = decoding.verilator_name
        /\ Len(decoding.source) > 1 =>
                /\ decoding.path = Below(decoding.source)
                /\ Rejoined = BelowTop(decoding.verilator_name)

\* top._$.__ decoded: two segments with an escaped '$' and an escaped
\* second '_', the name of the top module dropped
C17_Witness ==
    /\ Grammatical
    /\ decoding.source = <<"top", "_$", "__">>
    /\ decoding.verilator_name = "top__DOT_____024__DOT_____05F"
    /\ decoding.path = <<"_$", "__">>

\* the ports of the design, by the names verilator exposes
PortNames == Names(Inputs(so_file)) \cup Names(Outputs(so_file))
InputNames == Names(Inputs(so_file))

\* the key k is the name the designer wrote for the port r, the handle under
\* it is the handle of r, and a read (a write, for an input) through it
\* calls get_r (set_r)
Addresses(k, r) ==
    /\ io.dict[k].verilator_name = r
    /\ encodeName(k) = r
    /\ Reached(Collection__getitem__(Self, k), "get", r)
    /\ r \in InputNames => Reached(Collection__setitem__(Self, k, {0}), "set", r)

\* C18: in every state of an instance, each port r of the design has a key
\* in sim.io that is the name as written in Verilog (every '__0XX' of r
\* replaced by the character of code XX), reads and writes through that key
\* call get_r and set_r, and the accessor calls of the last operation through
\* a key carry the name verilator exposes for that key.
C18_KeysAreNames ==
    Exists =>
        /\ \A r \in PortNames : \E k \in DOMAIN io.dict : Addresses(k, r)
        /\ (op.kind \in {"read", "write"} /\ op.name \in DOMAIN io.dict /\ exc = None) =>
                \A i \in 1..Len(calls) :
                    calls[i].fn \in {"get", "set"} => calls[i].port = encodeName(op.name)

\* 1 written to the port $^_^ through sim.io['$^_^']: set___024__05E___05E
\* was called
C18_Witness ==
    /\ op.kind = "write" /\ op.name = "$^_^" /\ op.value = {0}
    /\ exc = None
    /\ calls[1].fn = "set" /\ calls[1].port = "__024__05E___05E"
    /\ top["__024__05E___05E"] = {0}

\* the step evaluated the model on a rising edge of clk with rst low and
\* do_finish high: the condition of the $finish of finish_tester
SignalsFinish ==
    /\ \E i \in 1..Len(calls') : calls'[i].fn = "eval"
    /\ 0 \in top'["clk"] /\ 0 \notin top["__Vclklast__clk"]
    /\ 0 \notin top'["rst"] /\ 0 \in top'["do_finish"]

\* the invocations of a finish callback among the calls of an operation
Invoked(log) == {i \in 1..Len(log) : log[i].fn = "vl_finish_callback"}

\* the int a read of sim.finished gives for a flag
AsInt(b) == IF b THEN {0} ELSE {}

C20_OneCallback ==
    [][/\ op'.kind = "set_vl_finish_callback" =>
            (exc' = None /\ Invoked(calls') = {})
       /\ \A i \in Invoked(calls') :
            /\ SignalsFinish
            /\ registered' # <<>>
            /\ calls'[i].port = registered'[Len(registered')]
            /\ calls'[i].args[1] = "sim_1"
       /\ (SignalsFinish /\ registered # <<>> /\ registered[Len(registered)] # None) =>
            Cardinality(Invoked(calls')) = 1]_vars

\* cb1 registered, then cb2, then $finish: cb2 was invoked with the instance
C20_Witness ==
    /\ registered = <<"cb1", "cb2">>
    /\ op.kind = "write" /\ op.port = "clk"
    /\ finished
    /\ \E i \in 1..Len(calls) :
            /\ calls[i].fn = "vl_finish_callback"
            /\ calls[i].port = "cb2"
            /\ calls[i].args[1] = "sim_1"

\* the two instances were loaded from different artifacts
Distinct == peer.so_file # so_file

\* the operation was one on sim_2
OnPeer(o) == "self" \in DOMAIN o

\* the instances a callback invoked during the calls of log was given
InvokedOn(log) == {log[i].args[1] : i \in Invoked(log)}

\* C21: with two instances loaded from different artifacts, a write, a read
\* of the flag or a registration on one instance (a clock edge and a finish
\* event among the writes) leaves the signal values, the finished flag and
\* the registered callback of the other instance as they were and invokes
\* no callback of the other instance.
C21_Independent ==
    [][Distinct =>
        /\ OnPeer(op') =>
                /\ top' = top /\ finished' = finished
                /\ vl_finish_callback' = vl_finish_callback
                /\ "sim_1" \notin InvokedOn(calls')
        /\ ~OnPeer(op') =>
                /\ peer'.top = peer.top /\ peer'.finished = peer.finished
                /\ peer'.vl_finish_callback = peer.vl_finish_callback
                /\ "sim_2" \notin InvokedOn(calls')]_vars

\* sim_2, from a second artifact, has just finished and its callback ran,
\* while sim_1, armed with do_finish and a callback of its own, has not
C21_Witness ==
    /\ Distinct
    /\ OnPeer(op) /\ op.kind = "write" /\ op.name = "clk"
    /\ peer.finished /\ InvokedOn(calls) = {"sim_2"}
    /\ ~finished /\ vl_finish_callback.cb = "cb1"
    /\ top["do_finish"] = {0}

\* the step evaluated the model of sim_2 on a rising edge of its clk with
\* its rst low and its do_finish high
PeerSignalsFinish ==
    /\ OnPeer(op')
    /\ \E i \in 1..Len(calls') : calls'[i].fn = "eval"
    /\ 0 \in peer'.top["clk"] /\ 0 \notin peer.top["__Vclklast__clk"]
    /\ 0 \notin peer'.top["rst"] /\ 0 \in peer'.top["do_finish"]

\* C22: two instances loaded from one artifact path have one finished flag
\* between them: the flags are equal in every state, a $finish of the model
\* of sim_2 makes the flag of sim_1 true in a step that leaves the model of
\* sim_1 alone, a read on either instance returns the one flag, and a true
\* flag stays true, so that both read true once both have finished.
C22_SharedFlag ==
    /\ [](~Distinct => peer.finished = finished)
    /\ [][~Distinct =>
            /\ PeerSignalsFinish => (finished' /\ top' = top)
            /\ op'.kind = "get_finished" => ret' = AsInt(finished')
            /\ finished => (finished' /\ peer'.finished)]_vars

\* sim_1, its clock and do_finish low, reads its flag as true after sim_2,
\* from the same artifact and with do_finish high, has finished
C22_Witness ==
    /\ ~Distinct
    /\ ~OnPeer(op) /\ op.kind = "get_finished" /\ ret = {0}
    /\ top["clk"] = {} /\ top["do_finish"] = {} /\ written["do_finish"] = {}
    /\ peer.top["do_finish"] = {0} /\ peer.top["clk"] = {0}

\* the operation started the program
Ran(log, program) ==
    \E i \in 1..Len(log) :
        log[i].fn \in {"subprocess.run", "subprocess.check_call"} /\ log[i].port = program

\* the operation did fn
Did(log, fn) == \E i \in 1..Len(log) : log[i].fn = fn

\* build returned nothing and left no library loaded and no model behind
NothingLoaded == ret' = {} /\ so_file' = None /\ lib' = None /\ model' = None

\* C23: a build in which verilator or make returns a code that is not 0
\* raises CalledProcessError and returns no instance; after a failure of
\* verilator the wrapper is not written and make is not run, after a failure
\* of make no library is loaded and no model constructed; and
\* CalledProcessError is raised in these two cases only.
C23_BuildFailed ==
    [][op'.kind = "build" =>
        /\ (Ran(calls', "perl") /\ op'.env.verilator # 0) =>
                /\ exc' = "CalledProcessError" /\ NothingLoaded
                /\ ~Did(calls', "write") /\ ~Ran(calls', "make")
        /\ (Ran(calls', "make") /\ op'.env.make # 0) =>
                /\ exc' = "CalledProcessError" /\ NothingLoaded
                /\ ~Did(calls', "ctypes.CDLL") /\ ~Did(calls', "construct")
        /\ exc' = "CalledProcessError" =>
                \/ Ran(calls', "perl") /\ op'.env.verilator # 0
                \/ Ran(calls', "make") /\ op'.env.make # 0]_vars

\* make, run quietly after the wrapper was written, failed
C23_Witness ==
    /\ op.kind = "build" /\ op.args.quiet
    /\ Did(calls, "write") /\ Ran(calls, "make")
    /\ exc = "CalledProcessError"
    /\ lib = None /\ model = None /\ so_file = None

\* the arguments pass the checks build makes first
ArgumentsPass(a) ==
    /\ a.verilog_defines # "str" /\ a.command_args # "str"
    /\ splitext(a.top_verilog_file)[2] = ".v"

\* C24 as stated: a build without verilator on the search path raises the
\* error of the missing executable, whatever its arguments, having written
\* no file and started no process.
C24_ToolNotFoundAlways ==
    [][(op'.kind = "build" /\ op'.env.which = None) =>
        /\ exc' = "Exception"
        /\ ~Did(calls', "write") /\ ~Did(calls', "subprocess.run")
        /\ ~Did(calls', "subprocess.check_call")]_vars

\* C24: a build without verilator on the search path writes no file and
\* starts no process, and, its arguments passing the checks that come
\* first, raises the error of the missing executable, which is no error
\* build raises otherwise.
C24_ToolNotFound ==
    [][op'.kind = "build" =>
        /\ op'.env.which = None =>
                /\ ~Did(calls', "write") /\ ~Did(calls', "subprocess.run")
                /\ ~Did(calls', "subprocess.check_call")
                /\ exc' # None /\ NothingLoaded
                /\ ArgumentsPass(op'.args) => exc' = "Exception"
        /\ exc' = "Exception" => op'.env.which = None]_vars

\* verilator is missing and build_dir did not exist: the directory was made,
\* the executable looked for, and nothing else done
C24_Witness ==
    /\ op.kind = "build" /\ op.env.which = None /\ ~op.env.exists
    /\ exc = "Exception"
    /\ Len(calls) = 2 /\ calls[1].fn = "os.makedirs" /\ calls[2].fn = "shutil.which"

\* C25: every run of the destructor, on an instance or on an object whose
\* constructor failed at any step, once or again, raises nothing, and the
\* native destruct has been given the model once if the model was
\* constructed and never otherwise.
C25_DestructorSafe ==
    [][op'.kind = "__del__" =>
        /\ exc' = None
        /\ released' = IF model = None THEN 0 ELSE 1]_vars

\* the descriptor lists build reads from the header of the operation
ListsOf(o) ==
    [signal_type \in {"IN", "OUT", "SIG"} |->
        Declared(signal_type, o.env.header, splitext(o.args.top_verilog_file)[1])]

\* the texts the operation wrote to the wrapper file
Texts(log) == {log[i].args[1] : i \in {j \in 1..Len(log) : log[j].fn = "write"}}

\* C26: a build whose header yields a descriptor with a width that is not
\* positive, or a name twice in one list, raises an error and writes no
\* wrapper.
C26_MalformedRejected ==
    [][(op'.kind = "build" /\ \E t \in DOMAIN ListsOf(op') : Malformed(ListsOf(op')[t])) =>
        (exc' # None /\ Texts(calls') = {})]_vars

\* C30: the wrapper build writes defines every name PyVerilator looks up
\* in the library for the same descriptor lists.
C30_SymbolsEmitted ==
    [][op'.kind = "build" =>
        \A text \in Texts(calls') :
            Resolved(text.inputs, text.outputs, text.internal_signals)
                \subseteq Symbols(text)]_vars

\* what stands in the nested Collection c at the end of path, Nothing
\* where the path leaves the Collection
Nothing == [kind |-> None]

RECURSIVE At(_, _)
At(c, path) ==
    IF c.kind = "signal" \/ path[1] \notin DOMAIN c.items THEN Nothing
    ELSE IF Len(path) = 1 THEN c.items[path[1]]
    ELSE At(c.items[path[1]], Tail(path))

\* C27: for a list of internal signals that the decoder accepts,
\* _populate_signal_collections raises nothing and the nested Collection
\* holds under the decoded path of each signal the handle of that signal.
C27_NestedInternals ==
    (op.kind = "_populate_signal_collections"
        /\ \A i \in 1..Len(op.name) :
                verilator_name_to_standard_modular_name(op.name[i][1]).exc = None)
    => /\ internals.exc = None
       /\ \A i \in 1..Len(op.name) :
            LET found == At(internals.collection,
                            verilator_name_to_standard_modular_name(op.name[i][1]).path)
            IN  /\ found.kind = "signal"
                /\ found.sig.verilator_name = op.name[i][1]

\* C28: in every state the trace handle is set exactly when the filename
\* is, and the auto-tracing mode is set only with a handle; so an eval never
\* raises, and a write that raises does so before its first native call,
\* never in the append that follows the setter.
C28_TraceFields ==
    /\ []((vcd_trace # NullPtr <=> vcd_filename # None)
            /\ (auto_tracing_mode # None => vcd_trace # NullPtr))
    /\ [][/\ op'.kind = "eval" => exc' = None
          /\ (op'.kind = "write" /\ exc' # None) => calls' = <<>>]_vars

\* an eval appended to the second session of an instance without a clock
C28_Witness ==
    /\ op.kind = "eval" /\ exc = None
    /\ auto_tracing_mode = "eval" /\ clock = None
    /\ Len(tfps) = 2 /\ vcd_trace = 2 /\ vcd_filename = "test.vcd"
    /\ \E i \in 1..Len(calls) : calls[i].fn = "add_to_vcd_trace"

\* the operation opened a session
Opened == vcd_trace' # NullPtr /\ vcd_trace' # vcd_trace

\* C29: start_gtkwave opens a session exactly when none is open, on the
\* default filename; stop_gtkwave with the viewer started closes the open
\* session exactly when start_gtkwave had opened it, so a session the
\* caller opened, under any filename, is still open afterwards; and
\* stop_gtkwave and send_signal_to_gtkwave raise when the viewer was not
\* started.
C29_ViewerOwnsTrace ==
    [][/\ (op'.kind = "start_gtkwave" /\ exc' = None) =>
            /\ Opened <=> vcd_trace = NullPtr
            /\ Opened => vcd_filename' = default_vcd_filename
       /\ (op'.kind = "stop_gtkwave" /\ gtkwave_active /\ vcd_trace # NullPtr) =>
            (vcd_trace' = NullPtr <=> WasImplicit)
       /\ (op'.kind = "stop_gtkwave" /\ gtkwave_active /\ vcd_trace # NullPtr
                /\ ~WasImplicit) =>
            (exc' = None /\ vcd_trace' = vcd_trace /\ vcd_filename' = vcd_filename)
       /\ (op'.kind \in {"stop_gtkwave", "send_signal_to_gtkwave"} /\ ~gtkwave_active) =>
            exc' = "ValueError"]_vars

====
